---- MODULE Spec2Model ----
(***************************************************************************)
(* A model of composer_mcp: the melody search loop (core/melody.py) and    *)
(* the reharmonization search loop (core/reharmonize.py), together with    *)
(* the response envelope (errors.py) and the random sources they use.      *)
(*                                                                         *)
(* Units.  Durations and offsets are counted in sixteenth notes (a quarter *)
(* note is 4), so that every duration of RHYTHM_PATTERNS is an integer.    *)
(* Candidate scores are counted in 1/6000, harmonization scores are exact  *)
(* fractions and are rounded to hundredths where the code calls round().   *)
(***************************************************************************)
EXTENDS Integers, Sequences, FiniteSets, TLC

\* Python's None: "None" where the value is otherwise a string, and the
\* empty tuple where it is a number or a record (Some(v) is then <<v>>).
None == "None"

Nil == <<>>

Some(v) == <<v>>

(***************************************************************************)
(* Pitches (music21.pitch.Pitch as the code uses it): a letter 0..6 for    *)
(* C..B, an alteration in semitones and an octave.  The code compares      *)
(* pitches by .midi and, in two places, by .name (the spelling).           *)
(***************************************************************************)
LetterPc(letter) == <<0, 2, 4, 5, 7, 9, 11>>[letter + 1]

Pitch(letter, alter, octave) == [letter |-> letter, alter |-> alter, octave |-> octave]

Midi(p) == 12 * (p.octave + 1) + LetterPc(p.letter) + p.alter

PitchName(p) == <<p.letter, p.alter>>

NamePc(nm) == (LetterPc(nm[1]) + nm[2] + 12) % 12

Abs(x) == IF x < 0 THEN -x ELSE x

Min2(a, b) == IF a <= b THEN a ELSE b

Max2(a, b) == IF a >= b THEN a ELSE b

RECURSIVE SumSeq(_)
SumSeq(s) == IF s = <<>> THEN 0 ELSE Head(s) + SumSeq(Tail(s))

(***************************************************************************)
(* Random sources.  A generator state is the seed it was last seeded with  *)
(* and the number of draws made since; a draw is a fixed function of that  *)
(* state.  random.Random(seed) and random.seed(seed) both give the state   *)
(* (seed, 0); the module-level generator of a fresh process starts from    *)
(* operating-system entropy, modelled as the seed -1.                      *)
(***************************************************************************)
RngSeeded(seed) == [seed |-> seed, n |-> 0]

RngAdvance(st) == [st EXCEPT !.n = @ + 1]

\* One draw as a word in 0..23 (rng.random() is RngWord/24).
RngWord(st) ==
    LET s == (st.seed + 1) % 997
        h == (st.seed + 1) \div 997
        m == st.n + 1
    IN  ((s * 389 + h * 211 + m * m * 73 + m * s * 57 + m * 131) % 1009) % 24

\* random.randint(0, 2**31) of the module-level generator: distinct states
\* give distinct values in the range.
RandInt31(st) == (st.seed + 1) * 1000 + st.n

\* rng.choice(seq)
RngChoice(seq, st) == seq[1 + (RngWord(st) % Len(seq))]

(***************************************************************************)
(* Keys and scales (music21.key.Key, Key.getScale().getPitches).  A key is *)
(* a tonic name and a mode; the scale is spelled on consecutive letters.   *)
(***************************************************************************)
Key(tonic, mode) == [tonic |-> tonic, mode |-> mode]

\* Semitones above the tonic of scale degrees 1..8 of a mode.
ModeSteps(mode) ==
    CASE mode = "major" -> <<0, 2, 4, 5, 7, 9, 11, 12>>
      [] mode = "minor" -> <<0, 2, 3, 5, 7, 8, 10, 12>>
      [] mode = "dorian" -> <<0, 2, 3, 5, 7, 9, 10, 12>>
      [] OTHER -> <<0, 2, 4, 5, 7, 9, 11, 12>>

\* The d-th pitch (1..8) of sc.getPitches(cur, cur.transpose("P8")).
ScaleDegreePitch(k, cur, d) ==
    LET idx == cur.letter + (d - 1)
        letter == idx % 7
        octave == cur.octave + (idx \div 7)
        midi == Midi(cur) + ModeSteps(k.mode)[d]
    IN  Pitch(letter, midi - (12 * (octave + 1) + LetterPc(letter)), octave)


InScaleByMidi(pitches, p) == \E i \in 1..Len(pitches) : Midi(pitches[i]) = Midi(p)

\* The number of passes of the while loop of get_scale_pitches_in_range,
\* which starts at `start` and goes up an octave per pass while
\* current.midi <= high.midi + 12.
OctavePasses(start, high) ==
    IF Midi(start) > Midi(high) + 12 THEN 0
    ELSE ((Midi(high) + 12 - Midi(start)) \div 12) + 1

\* The pitches the loops visit, in order: the eight degrees of each pass.
VisitedPitches(k, start, high) ==
    [idx \in 1..(8 * OctavePasses(start, high)) |->
        ScaleDegreePitch(k, [start EXCEPT !.octave = @ + ((idx - 1) \div 8)],
                         ((idx - 1) % 8) + 1)]

\* Whether the i-th visited pitch is appended: it lies within [low, high]
\* and no pitch of its midi value was appended before.
Kept(v, i, low, high) ==
    /\ Midi(low) <= Midi(v[i])
    /\ Midi(v[i]) <= Midi(high)
    /\ \A j \in 1..(i - 1) : Midi(v[j]) # Midi(v[i])

\* The elements of seq at the positions where Keep holds, in order.
Filtered(seq, Keep(_)) ==
    LET idx == SelectSeq([i \in 1..Len(seq) |-> i], Keep)
    IN  [i \in 1..Len(idx) |-> seq[idx[i]]]

\* pitches before sorting, of the visited pitches v.
CollectFrom(v, low, high) == Filtered(v, LAMBDA i : Kept(v, i, low, high))

CollectScale(k, start, low, high) == CollectFrom(VisitedPitches(k, start, high), low, high)

\* sorted(seq, key = ...): the stable sort under the strict order Before,
\* elements of equal key keeping their order.
StableSort(seq, Before(_, _)) ==
    LET n == Len(seq)
        rank(j) == 1 + Cardinality({k \in 1..n :
                        \/ Before(seq[k], seq[j])
                        \/ (~Before(seq[j], seq[k]) /\ k < j)})
    IN  [i \in 1..n |-> seq[CHOOSE j \in 1..n : rank(j) = i]]

\* sorted(pitches, key = lambda p: p.midi)
SortByMidi(pitches) == StableSort(pitches, LAMBDA x, y : Midi(x) < Midi(y))

InvalidRange(low, high) == Midi(low) >= Midi(high)

\* get_scale_pitches_in_range, for a range that is not InvalidRange.
get_scale_pitches_in_range(k, low, high) ==
    SortByMidi(CollectScale(k, Pitch(k.tonic[1], k.tonic[2], low.octave - 1), low, high))

(***************************************************************************)
(* Rhythm (generate_rhythm_pattern).                                       *)
(***************************************************************************)
\* RHYTHM_PATTERNS with the medium patterns for every density.
RhythmPatternsMedium(density) ==
    << <<4, 4, 4, 4>>, <<4, 4, 8>>, <<8, 4, 4>>, <<6, 2, 4, 4>>, <<4, 4, 4, 2, 2>> >>

RHYTHM_PATTERNS(density) ==
    CASE density = "sparse" ->
            << <<8, 8>>, <<16>>, <<12, 4>>, <<8, 4, 4>> >>
      [] density = "medium" ->
            << <<4, 4, 4, 4>>, <<4, 4, 8>>, <<8, 4, 4>>, <<6, 2, 4, 4>>,
               <<4, 4, 4, 2, 2>> >>
      [] density = "dense" ->
            << <<2, 2, 2, 2, 4, 4>>, <<2, 2, 2, 2, 2, 2, 2, 2>>,
               <<4, 2, 2, 2, 2, 4>>, <<1, 1, 2, 2, 2, 4, 4>> >>

\* TotalSixteenths with every beat taken for a quarter.
TotalInQuarterBeats(ts, measures) == ts[1] * 4 * measures

\* beats_per_measure * (4.0 / beat_unit) * num_measures, in sixteenths.
TotalSixteenths(ts, measures) == ts[1] * (16 \div ts[2]) * measures

\* The for loop over one pattern: append while it fits, else the remainder.
RECURSIVE ApplyPattern(_, _, _)
ApplyPattern(rhythm, pattern, total) ==
    IF pattern = <<>> THEN rhythm
    ELSE IF SumSeq(rhythm) + Head(pattern) <= total
         THEN ApplyPattern(Append(rhythm, Head(pattern)), Tail(pattern), total)
         ELSE IF total - SumSeq(rhythm) > 0
              THEN Append(rhythm, total - SumSeq(rhythm))
              ELSE rhythm

RECURSIVE RhythmLoop(_, _, _, _)
RhythmLoop(rhythm, total, patterns, rng) ==
    IF SumSeq(rhythm) >= total THEN [rhythm |-> rhythm, rng |-> rng]
    ELSE RhythmLoop(ApplyPattern(rhythm, RngChoice(patterns, rng), total),
                    total, patterns, RngAdvance(rng))

generate_rhythm_pattern(density, ts, measures, rng) ==
    RhythmLoop(<<>>, TotalSixteenths(ts, measures), RHYTHM_PATTERNS(density), rng)

(***************************************************************************)
(* The melodic walk (get_contour_bias, select_next_pitch).  Biases are     *)
(* counted in hundredths, prefer_stepwise in tenths, and a weight is the   *)
(* code's weight times 10000.                                              *)
(***************************************************************************)
\* interval.Interval(name).semitones
IntervalSemitones(name) ==
    CASE name = "P1" -> 0
      [] name = "m2" -> 1
      [] name = "M2" -> 2
      [] name = "m3" -> 3
      [] name = "M3" -> 4
      [] name = "P4" -> 5
      [] name = "P5" -> 7
      [] name = "P8" -> 12

\* 0.4 * sin(4 * pi * i / n) in hundredths, sampled at the middle of each
\* eighth of the period; 0 where the sine is 0.
WaveBias(i, n) ==
    IF (4 * i) % n = 0 THEN 0
    ELSE <<15, 37, 37, 15, -15, -37, -37, -15>>[1 + (((16 * i) \div n) % 8)]

\* get_contour_bias at position_ratio = i / n.
get_contour_bias(i, n, contour) ==
    CASE contour = None -> 0
      [] contour = "arch" -> IF 10 * i < 6 * n THEN 50 ELSE -50
      [] contour = "ascending" -> 40
      [] contour = "descending" -> -40
      [] contour = "wave" -> WaveBias(i, n)
      [] contour = "static" -> 0
      [] OTHER -> 0

\* The index of the first element of a non-empty sequence of pitches that
\* is nearest to midi value m: min(..., key=abs distance).
NearestIndex(pitches, m) ==
    CHOOSE i \in 1..Len(pitches) :
        \A j \in 1..Len(pitches) :
            \/ Abs(Midi(pitches[i]) - m) < Abs(Midi(pitches[j]) - m)
            \/ (Abs(Midi(pitches[i]) - m) = Abs(Midi(pitches[j]) - m) /\ i <= j)

\* current_idx of select_next_pitch.
CurrentIndex(scale_pitches, current) ==
    IF InScaleByMidi(scale_pitches, current)
    THEN CHOOSE i \in 1..Len(scale_pitches) :
            /\ Midi(scale_pitches[i]) = Midi(current)
            /\ \A j \in 1..(i - 1) : Midi(scale_pitches[j]) # Midi(current)
    ELSE NearestIndex(scale_pitches, Midi(current))

\* The weight of scale pitch number i as a candidate.
CandidateWeight(scale_pitches, i, current, current_idx, bias, contour, prefer_stepwise) ==
    LET p == scale_pitches[i]
        step_distance == Abs(i - current_idx)
        stepwise == IF step_distance <= 1 THEN 100 + 20 * prefer_stepwise
                    ELSE IF step_distance = 2 THEN 100 + 5 * prefer_stepwise
                    ELSE 100 - 3 * prefer_stepwise
        biased == IF Midi(p) > Midi(current) /\ bias > 0 THEN 100 + bias
                  ELSE IF Midi(p) < Midi(current) /\ bias < 0 THEN 100 - bias
                  ELSE IF Midi(p) = Midi(current)
                       THEN (IF contour = "static" THEN 150 ELSE 50)
                       ELSE 100
    IN  stepwise * biased

\* WithinLeap with nothing filtered.
WithinLeapAlways(p, current, max_leap) == TRUE

\* The max leap filter of select_next_pitch.
WithinLeap(p, current, max_leap) ==
    max_leap = None \/ Abs(Midi(p) - Midi(current)) <= IntervalSemitones(max_leap)

\* One pass of the loop over scale_pitches: the pitch with its weight (0
\* when the max leap filter skips it).
Candidate(scale_pitches, i, current, current_idx, bias, contour, prefer_stepwise, max_leap) ==
    [p |-> scale_pitches[i],
     w |-> IF WithinLeap(scale_pitches[i], current, max_leap)
           THEN CandidateWeight(scale_pitches, i, current, current_idx, bias, contour,
                                prefer_stepwise)
           ELSE 0]

\* candidates: the (pitch, weight) pairs of positive weight in scale order.
BuildCandidates(scale_pitches, current, current_idx, bias, contour, prefer_stepwise, max_leap) ==
    SelectSeq([i \in 1..Len(scale_pitches) |->
                  Candidate(scale_pitches, i, current, current_idx, bias, contour,
                            prefer_stepwise, max_leap)],
              LAMBDA c : c.w > 0)

RECURSIVE SumWeights(_)
SumWeights(cands) == IF cands = <<>> THEN 0 ELSE Head(cands).w + SumWeights(Tail(cands))

\* The cumulative loop: the first candidate with r <= cumulative, where
\* r = word / 24 * total; candidates[-1] when none is.
RECURSIVE PickWeighted(_, _, _, _)
PickWeighted(cands, cumulative, word, total) ==
    IF Len(cands) = 1 THEN Head(cands).p
    ELSE IF word * total <= (cumulative + Head(cands).w) * 24 THEN Head(cands).p
    ELSE PickWeighted(Tail(cands), cumulative + Head(cands).w, word, total)

\* "Weighted random selection" among the candidates, or the fallback.
SelectAmong(cands, current, rng) ==
    IF cands = <<>> THEN [pitch |-> current, rng |-> rng]
    ELSE [pitch |-> PickWeighted(cands, 0, RngWord(rng), SumWeights(cands)),
          rng |-> RngAdvance(rng)]

select_next_pitch(current, scale_pitches, i, n, contour, prefer_stepwise, max_leap, rng) ==
    SelectAmong(BuildCandidates(scale_pitches, current,
                                CurrentIndex(scale_pitches, current),
                                get_contour_bias(i, n, contour), contour,
                                prefer_stepwise, max_leap),
                current, rng)

(***************************************************************************)
(* Response envelope (errors.py, models.ApiResponse).  An outcome is what  *)
(* the caller of a handler gets: a returned envelope, or an exception that *)
(* escapes the handler.                                                    *)
(***************************************************************************)
success_response(data) ==
    [kind |-> "returned", success |-> TRUE, data |-> Some(data), warnings |-> <<>>,
     error |-> Nil, exc |-> Nil]

partial_success_response(data, warnings) ==
    [kind |-> "returned", success |-> TRUE, data |-> Some(data), warnings |-> warnings,
     error |-> Nil, exc |-> Nil]

\* error_response: a ComposerError keeps its code, any other exception
\* becomes INTERNAL_ERROR; the data field keeps its default, None.
error_response(exc) ==
    [kind |-> "returned", success |-> FALSE, data |-> Nil, warnings |-> <<>>,
     error |-> Some([code |-> IF exc.composer THEN exc.code ELSE "INTERNAL_ERROR",
                     message |-> exc.code]),
     exc |-> Nil]

\* raise <exc>: the exception leaves the handler.
Raised(exc) ==
    [kind |-> "raised", success |-> FALSE, data |-> Nil, warnings |-> <<>>,
     error |-> Nil, exc |-> Some(exc)]

ComposerError(code) == [composer |-> TRUE, code |-> code]

OtherError(code) == [composer |-> FALSE, code |-> code]

(***************************************************************************)
(* generate_melody.                                                        *)
(***************************************************************************)
\* The starting pitch when no usable start note is requested: a tonic of
\* the range, else any scale pitch.
TonicStart(k, scale_pitches, rng) ==
    LET tonic_pitches == SelectSeq(scale_pitches, LAMBDA p : PitchName(p) = k.tonic)
    IN  [pitch |-> IF tonic_pitches # <<>> THEN RngChoice(tonic_pitches, rng)
                   ELSE RngChoice(scale_pitches, rng),
         rng |-> RngAdvance(rng), adjusted |-> FALSE]

\* StartPitch with the requested start note taken as it is, in the scale
\* or not.
StartPitchUnadjusted(req, k, scale_pitches, rng) ==
    IF req.start_note # Nil
    THEN [pitch |-> req.start_note[1], rng |-> rng,
          adjusted |-> ~InScaleByMidi(scale_pitches, req.start_note[1])]
    ELSE TonicStart(k, scale_pitches, rng)

\* StartPitch with the requested start note used only when it has to be
\* adjusted.
StartPitchIgnored(req, k, scale_pitches, rng) ==
    IF req.start_note # Nil /\ ~InScaleByMidi(scale_pitches, req.start_note[1])
    THEN [pitch |-> scale_pitches[NearestIndex(scale_pitches, Midi(req.start_note[1]))],
          rng |-> rng, adjusted |-> TRUE]
    ELSE TonicStart(k, scale_pitches, rng)

\* The starting pitch of one attempt: [pitch, rng, adjusted].
StartPitch(req, k, scale_pitches, rng) ==
    IF req.start_note # Nil
    THEN IF InScaleByMidi(scale_pitches, req.start_note[1])
         THEN [pitch |-> req.start_note[1], rng |-> rng, adjusted |-> FALSE]
         ELSE [pitch |-> scale_pitches[NearestIndex(scale_pitches, Midi(req.start_note[1]))],
               rng |-> rng, adjusted |-> TRUE]
    ELSE TonicStart(k, scale_pitches, rng)

\* The state of the for loop over the rhythm before its first pass.
WalkStart(start) == [i |-> 0, current |-> start.pitch, rng |-> start.rng, pitches |-> <<>>]

\* One pass that selects a next pitch: the note gets the current pitch and
\* nxt becomes the current one.
WalkStep(st, nxt) ==
    [i |-> st.i + 1, current |-> nxt.pitch, rng |-> nxt.rng,
     pitches |-> Append(st.pitches, st.current)]

\* The for loop over the rhythm from st = [i, current, rng, pitches]: note
\* i (0-based) gets the current pitch, and every note but the last selects
\* a next one.
RECURSIVE Walk(_, _, _, _)
Walk(req, scale_pitches, rhythm, st) ==
    IF st.i >= Len(rhythm) THEN [pitches |-> st.pitches, rng |-> st.rng]
    ELSE IF st.i = Len(rhythm) - 1
    THEN [pitches |-> Append(st.pitches, st.current), rng |-> st.rng]
    ELSE Walk(req, scale_pitches, rhythm,
              WalkStep(st, select_next_pitch(st.current, scale_pitches, st.i, Len(rhythm),
                                             req.contour, req.prefer_stepwise,
                                             req.avoid_leaps_greater_than, st.rng)))

\* ForceEnd with the requested end note taken whether or not it is a scale
\* pitch of the range.
ForceEndUnchecked(req, scale_pitches, pitches) ==
    IF req.end_note = Nil THEN [pitches |-> pitches, adjusted |-> FALSE]
    ELSE [pitches |-> [pitches EXCEPT ![Len(pitches)] = req.end_note[1]],
          adjusted |-> FALSE]

\* ForceEnd with the last note left as the walk chose it.
ForceEndSkipped(req, scale_pitches, pitches) == [pitches |-> pitches, adjusted |-> FALSE]

\* The end note constraint on the pitches of one attempt (non-empty):
\* [pitches, adjusted].
ForceEnd(req, scale_pitches, pitches) ==
    LET n == Len(pitches) IN
    IF req.end_note = Nil \/ Midi(pitches[n]) = Midi(req.end_note[1])
    THEN [pitches |-> pitches, adjusted |-> FALSE]
    ELSE IF InScaleByMidi(scale_pitches, req.end_note[1])
    THEN [pitches |-> [pitches EXCEPT ![n] = req.end_note[1]], adjusted |-> FALSE]
    ELSE [pitches |-> [pitches EXCEPT ![n] =
                          scale_pitches[NearestIndex(scale_pitches, Midi(req.end_note[1]))]],
          adjusted |-> TRUE]

AllInRange(req, pitches) ==
    \A i \in 1..Len(pitches) :
        Midi(req.range_low) <= Midi(pitches[i]) /\ Midi(pitches[i]) <= Midi(req.range_high)

\* LeapsOk with the step to the last note left out.
LeapsOkBeforeLast(pitches, max_leap) ==
    \A i \in 2..(Len(pitches) - 1) :
        Abs(Midi(pitches[i]) - Midi(pitches[i - 1])) <= IntervalSemitones(max_leap)

LeapsOk(pitches, max_leap) ==
    \A i \in 2..Len(pitches) :
        Abs(Midi(pitches[i]) - Midi(pitches[i - 1])) <= IntervalSemitones(max_leap)

\* The score of one attempt.
AttemptScore(req, pitches) ==
    (IF AllInRange(req, pitches) THEN 1 ELSE 0)
    + (IF req.avoid_leaps_greater_than # None
          /\ LeapsOk(pitches, req.avoid_leaps_greater_than) THEN 1 ELSE 0)

\* "If perfect score, we're done".
PerfectScore(req, score) ==
    score = 2 \/ (score = 1 /\ req.avoid_leaps_greater_than = None)

\* ReplacesBest with an attempt of equal score taking the place of the best.
ReplacesBestOrTies(score, best_score) == score >= best_score

\* best_score starts at -1 and an attempt replaces the best when it scores
\* strictly more.
ReplacesBest(score, best_score) == score > best_score

Warning(code, pitch) == [code |-> code, pitch |-> pitch]

\* The notes of one attempt once the walk is done: [start, rng, ended],
\* ended being [pitches, adjusted] after the end note constraint.
AttemptEnded(req, scale_pitches, start, walk) ==
    [start |-> start, rng |-> walk.rng,
     ended |-> IF walk.pitches = <<>> THEN [pitches |-> <<>>, adjusted |-> FALSE]
               ELSE ForceEnd(req, scale_pitches, walk.pitches)]

\* The walk of one attempt from its starting pitch.
AttemptFrom(req, scale_pitches, rhythm, start) ==
    AttemptEnded(req, scale_pitches, start,
                 Walk(req, scale_pitches, rhythm, WalkStart(start)))

\* AttemptWarnings with the adjustments reported on every attempt.
AttemptWarningsEveryAttempt(warnings, attempt, a) ==
    LET w1 == IF a.start.adjusted
              THEN Append(warnings, Warning("START_NOTE_ADJUSTED", a.start.pitch))
              ELSE warnings
    IN  IF a.ended.adjusted
        THEN Append(w1, Warning("END_NOTE_ADJUSTED",
                                a.ended.pitches[Len(a.ended.pitches)]))
        ELSE w1

\* The warnings after an attempt: adjustments are reported on attempt 0.
AttemptWarnings(warnings, attempt, a) ==
    LET w1 == IF a.start.adjusted /\ attempt = 0
              THEN Append(warnings, Warning("START_NOTE_ADJUSTED", a.start.pitch))
              ELSE warnings
    IN  IF a.ended.adjusted /\ attempt = 0
        THEN Append(w1, Warning("END_NOTE_ADJUSTED",
                                a.ended.pitches[Len(a.ended.pitches)]))
        ELSE w1

\* The loop state after attempt a has been given its score.
AttemptScored(req, st, attempt, a, score) ==
    [rng |-> a.rng,
     warnings |-> AttemptWarnings(st.warnings, attempt, a),
     best_melody |-> IF ReplacesBest(score, st.best_score) THEN a.ended.pitches
                     ELSE st.best_melody,
     best_score |-> IF ReplacesBest(score, st.best_score) THEN score ELSE st.best_score,
     found |-> st.found \/ ReplacesBest(score, st.best_score),
     scores |-> Append(st.scores, score),
     tried |-> Append(st.tried, a.ended.pitches),
     crashed |-> FALSE,
     done |-> PerfectScore(req, score)]

\* The loop state after attempt a.
AfterAttempt(req, st, attempt, a) ==
    AttemptScored(req, st, attempt, a, AttemptScore(req, a.ended.pitches))

\* The loop state before the first attempt.
NoAttempt(rng) ==
    [rng |-> rng, warnings |-> <<>>, best_melody |-> <<>>, best_score |-> -1,
     found |-> FALSE, scores |-> <<>>, tried |-> <<>>, crashed |-> FALSE, done |-> FALSE]

\* The attempt loop from attempt number `attempt` (0-based) on; st holds
\* rng, warnings, best_melody, best_score, the scores and the pitches of
\* the attempts so far (scores, tried) and whether
\* the loop was left by its break.
RECURSIVE AttemptLoop(_, _, _, _, _, _)
AttemptLoop(req, k, scale_pitches, rhythm, attempt, st) ==
    IF attempt >= req.max_attempts \/ st.done THEN st
    ELSE IF rhythm = <<>> /\ req.end_note # Nil
    THEN [st EXCEPT !.crashed = TRUE]
    ELSE AttemptLoop(req, k, scale_pitches, rhythm, attempt + 1,
                     AfterAttempt(req, st, attempt,
                                  AttemptFrom(req, scale_pitches, rhythm,
                                              StartPitch(req, k, scale_pitches, st.rng))))

\* "Build note data": measure and beat (in sixteenths of a quarter, so
\* beat 1.0 is 4) of each note.
RECURSIVE NotesData(_, _, _, _, _, _)
NotesData(pitches, rhythm, i, measure, beat, beats_per_measure) ==
    IF i > Len(pitches) THEN <<>>
    ELSE LET b == beat + rhythm[i]
             over == IF b > 4 * beats_per_measure
                     THEN (b - 1) \div (4 * beats_per_measure) ELSE 0
         IN  <<[pitch |-> pitches[i], duration |-> rhythm[i],
                measure |-> measure, beat |-> beat]>>
             \o NotesData(pitches, rhythm, i + 1, measure + over,
                          b - over * 4 * beats_per_measure, beats_per_measure)

\* SeedUsed with every seed drawn from the module-level generator.
SeedAlwaysDrawn(req, global) == RandInt31(global)

\* SeedUsed with the truthiness test `if request.seed:`, which takes seed 0
\* for no seed.
SeedIfTruthy(req, global) ==
    IF req.seed # Nil /\ req.seed[1] # 0 THEN req.seed[1] ELSE RandInt31(global)

\* "Initialize RNG with deterministic seed": the seed the request gives,
\* else one drawn from the module-level generator.
SeedUsed(req, global) == IF req.seed # Nil THEN req.seed[1] ELSE RandInt31(global)

\* The module-level generator after the seed has been settled.
GlobalAfterSeed(req, global) == IF req.seed # Nil THEN global ELSE RngAdvance(global)

\* "Build note data" to the return: the outcome for the final loop state.
MelodyResponse(req, seed_used, scale_size, rhythm, fin) ==
    LET data == [notes |-> NotesData(fin.best_melody, rhythm, 1, 1, 4,
                                     req.time_signature[1]),
                 measures |-> req.length_measures,
                 note_count |-> Len(fin.best_melody),
                 key |-> req.key,
                 seed_used |-> seed_used,
                 attempts |-> Len(fin.scores),
                 scores |-> fin.scores,
                 tried |-> fin.tried,
                 scale_size |-> scale_size]
    IN  IF fin.crashed THEN Raised(OtherError("IndexError"))
        ELSE IF ~fin.found THEN Raised(ComposerError("UNSATISFIABLE_CONSTRAINTS"))
        ELSE IF fin.best_melody = <<>> THEN Raised(OtherError("ValueError"))
        ELSE IF fin.warnings # <<>> THEN partial_success_response(data, fin.warnings)
        ELSE success_response(data)

\* The attempts on the rhythm rh = [rhythm, rng] and the response.
MelodyOnRhythm(req, scale_pitches, seed_used, rh) ==
    MelodyResponse(req, seed_used, Len(scale_pitches), rh.rhythm,
                   AttemptLoop(req, req.key, scale_pitches, rh.rhythm, 0,
                               NoAttempt(rh.rng)))

\* rng = random.Random(seed_used) and what follows.
MelodyFromSeed(req, scale_pitches, seed_used) ==
    MelodyOnRhythm(req, scale_pitches, seed_used,
                   generate_rhythm_pattern(req.rhythmic_density, req.time_signature,
                                           req.length_measures, RngSeeded(seed_used)))

\* MelodyInScale with the seed settled before the size of the scale is
\* looked at.
MelodyInScaleSeedFirst(req, global, scale_pitches) ==
    IF Len(scale_pitches) < 3
    THEN [out |-> Raised(ComposerError("UNSATISFIABLE_CONSTRAINTS")),
          global |-> GlobalAfterSeed(req, global)]
    ELSE [out |-> MelodyFromSeed(req, scale_pitches, SeedUsed(req, global)),
          global |-> GlobalAfterSeed(req, global)]

\* generate_melody once the scale pitches of the range are known.
MelodyInScale(req, global, scale_pitches) ==
    IF Len(scale_pitches) < 3
    THEN [out |-> Raised(ComposerError("UNSATISFIABLE_CONSTRAINTS")), global |-> global]
    ELSE [out |-> MelodyFromSeed(req, scale_pitches, SeedUsed(req, global)),
          global |-> GlobalAfterSeed(req, global)]

\* generate_melody(request): [out, global], the outcome and the state the
\* module-level generator is left in.
generate_melody(req, global) ==
    IF InvalidRange(req.range_low, req.range_high)
    THEN [out |-> Raised(ComposerError("INVALID_RANGE")), global |-> global]
    ELSE MelodyInScale(req, global,
                       get_scale_pitches_in_range(req.key, req.range_low, req.range_high))

(***************************************************************************)
(* Style rules (StyleRules, CLASSICAL_RULES .. MODAL_RULES, STYLE_RULES).  *)
(***************************************************************************)
CLASSICAL_RULES ==
    [allowed_numerals |-> <<"I", "ii", "iii", "IV", "V", "vi", "viio">>,
     prefer_extensions |-> FALSE,
     common_progressions |-> << <<"I", "IV", "V", "I">>, <<"I", "vi", "IV", "V">>,
                                <<"I", "ii", "V", "I">>, <<"I", "IV", "ii", "V">> >>,
     cadence_patterns |-> << <<"V", "I">>, <<"IV", "I">>, <<"ii", "V">>, <<"V", "vi">> >>,
     avoid_parallel_fifths |-> TRUE,
     avoid_parallel_octaves |-> TRUE]

JAZZ_RULES ==
    [allowed_numerals |-> <<"Imaj7", "ii7", "iii7", "IVmaj7", "V7", "vi7", "viio7">>,
     prefer_extensions |-> TRUE,
     common_progressions |-> << <<"ii7", "V7", "Imaj7">>, <<"iii7", "vi7", "ii7", "V7">>,
                                <<"Imaj7", "vi7", "ii7", "V7">>,
                                <<"ii7", "V7", "iii7", "vi7">> >>,
     cadence_patterns |-> << <<"V7", "Imaj7">>, <<"ii7", "V7">>,
                             <<"Imaj7", "vi7", "ii7", "V7">> >>,
     avoid_parallel_fifths |-> FALSE,
     avoid_parallel_octaves |-> FALSE]

POP_RULES ==
    [allowed_numerals |-> <<"I", "ii", "IV", "V", "vi">>,
     prefer_extensions |-> FALSE,
     common_progressions |-> << <<"I", "V", "vi", "IV">>, <<"I", "IV", "vi", "V">>,
                                <<"vi", "IV", "I", "V">>, <<"I", "IV", "I", "V">> >>,
     cadence_patterns |-> << <<"V", "I">>, <<"IV", "I">> >>,
     avoid_parallel_fifths |-> TRUE,
     avoid_parallel_octaves |-> TRUE]

MODAL_RULES ==
    [allowed_numerals |-> <<"I", "II", "III", "IV", "V", "VI", "VII">>,
     prefer_extensions |-> FALSE,
     common_progressions |-> << <<"I", "IV", "I">>, <<"i", "VII", "VI">>,
                                <<"I", "II", "I">> >>,
     cadence_patterns |-> << <<"IV", "I">>, <<"IV", "I">> >>,
     avoid_parallel_fifths |-> FALSE,
     avoid_parallel_octaves |-> FALSE]

STYLE_RULES(style) ==
    CASE style = "classical" -> CLASSICAL_RULES
      [] style = "jazz" -> JAZZ_RULES
      [] style = "pop" -> POP_RULES
      [] style = "modal" -> MODAL_RULES
      [] OTHER -> CLASSICAL_RULES

(***************************************************************************)
(* Roman numerals (music21.roman.RomanNumeral in a major key): the scale   *)
(* degree of the root and the semitones of the third, fifth and seventh    *)
(* above it (0: no seventh), spelled on every other letter from the root.  *)
(***************************************************************************)
RomanShape(label) ==
    CASE label = "I" -> <<1, 4, 7, 0>>
      [] label = "i" -> <<1, 3, 7, 0>>
      [] label = "ii" -> <<2, 3, 7, 0>>
      [] label = "II" -> <<2, 4, 7, 0>>
      [] label = "iii" -> <<3, 3, 7, 0>>
      [] label = "III" -> <<3, 4, 7, 0>>
      [] label = "IV" -> <<4, 4, 7, 0>>
      [] label = "V" -> <<5, 4, 7, 0>>
      [] label = "vi" -> <<6, 3, 7, 0>>
      [] label = "VI" -> <<6, 4, 7, 0>>
      [] label = "viio" -> <<7, 3, 6, 0>>
      [] label = "VII" -> <<7, 4, 7, 0>>
      [] label = "Imaj7" -> <<1, 4, 7, 11>>
      [] label = "ii7" -> <<2, 3, 7, 10>>
      [] label = "iii7" -> <<3, 3, 7, 10>>
      [] label = "IVmaj7" -> <<4, 4, 7, 11>>
      [] label = "V7" -> <<5, 4, 7, 10>>
      [] label = "vi7" -> <<6, 3, 7, 10>>
      [] label = "viio7" -> <<7, 3, 6, 9>>

\* The name on `letter` whose pitch class is pc.
SpellOn(letter, pc) == <<letter, (((pc - LetterPc(letter)) + 18) % 12) - 6>>

\* The names of the chord of shape sh whose root is on letter rl with
\* pitch class rpc.
ChordSpelled(sh, rl, rpc) ==
    [i \in 1..(IF sh[4] = 0 THEN 3 ELSE 4) |->
        SpellOn((rl + 2 * (i - 1)) % 7, (rpc + <<0, sh[2], sh[3], sh[4]>>[i]) % 12)]

\* The chord of shape sh in key k.
ChordOn(sh, k) ==
    ChordSpelled(sh, (k.tonic[1] + sh[1] - 1) % 7,
                 (NamePc(k.tonic) + ModeSteps(k.mode)[sh[1]]) % 12)

\* rn.pitches as names: root, third, fifth and, if any, seventh.
ChordNames(label, k) == ChordOn(RomanShape(label), k)

\* Whether roman.RomanNumeral(label, key) raises: the labels this key does
\* not resolve are given with the analysed input.
Resolves(label, mel) == label \notin mel.unresolved

NamesPcs(names) == [i \in 1..Len(names) |-> NamePc(names[i])]

\* [p.midi % 12 for p in rn.pitches]
ChordPcs(label, k) == NamesPcs(ChordNames(label, k))

\* rn.bass().midi % 12 (the chords are in root position).
BassPc(label, k) == NamePc(ChordNames(label, k)[1])

SeqToSet(seq) == {seq[i] : i \in 1..Len(seq)}

(***************************************************************************)
(* A parsed melody is [kind, id, notes, key, ts_num, unresolved]: notes is *)
(* the sequence of [name, dur] (dur in sixteenths) laid end to end, key    *)
(* the result of melody.analyze('key'), ts_num the numerator of the first  *)
(* time signature.  Chord points and windows are in sixteenths.            *)
(***************************************************************************)
RECURSIVE NoteOffset(_, _)
NoteOffset(notes, i) == IF i = 1 THEN 0 ELSE NoteOffset(notes, i - 1) + notes[i - 1].dur

TotalLength(notes) == IF notes = <<>> THEN 0 ELSE NoteOffset(notes, Len(notes)) + notes[Len(notes)].dur

ChordStep(chord_rhythm, time_sig_numerator) ==
    CASE chord_rhythm = "per_measure" -> 4 * time_sig_numerator
      [] chord_rhythm = "per_half" -> 2 * time_sig_numerator
      [] OTHER -> 4

\* ChordPointsFrom with a point at the end of the melody too.
RECURSIVE ChordPointsThrough(_, _, _, _)
ChordPointsThrough(offset, step, total_length, points) ==
    IF offset <= total_length
    THEN ChordPointsThrough(offset + step, step, total_length, Append(points, offset))
    ELSE points

RECURSIVE ChordPointsFrom(_, _, _, _)
ChordPointsFrom(offset, step, total_length, points) ==
    IF offset < total_length
    THEN ChordPointsFrom(offset + step, step, total_length, Append(points, offset))
    ELSE points

get_chord_points(mel, chord_rhythm, time_sig_numerator) ==
    ChordPointsFrom(0, ChordStep(chord_rhythm, time_sig_numerator), TotalLength(mel.notes), <<>>)

\* The set of names of the notes overlapping [offset, offset + duration).
get_melody_notes_at(mel, offset, duration) ==
    {mel.notes[i].name : i \in {j \in 1..Len(mel.notes) :
        /\ NoteOffset(mel.notes, j) < offset + duration
        /\ NoteOffset(mel.notes, j) + mel.notes[j].dur > offset}}

(***************************************************************************)
(* Candidate scores are in units of 1/4200, so that a mean over up to      *)
(* seven melody names, the bonuses and the jitter are all whole numbers.   *)
(***************************************************************************)
ScoreUnit == 420 * 10

\* random.uniform(-0.1, 0.1) from one generator word.
Jitter(rng) == 35 * RngWord(rng) - 420

MelodyFitScore(melody_notes, chord_pitches) ==
    IF melody_notes = {} THEN ScoreUnit \div 2
    ELSE (ScoreUnit \div Cardinality(melody_notes))
            * Cardinality(melody_notes \cap SeqToSet(chord_pitches))
         - ((3 * ScoreUnit) \div (10 * Cardinality(melody_notes)))
            * Cardinality(melody_notes \ SeqToSet(chord_pitches))

\* A progression adds its bonus once if previous_chord is followed by
\* numeral_str somewhere in it.
ProgressionFollows(prog, previous_chord, numeral_str) ==
    \E i \in 1..(Len(prog) - 1) : prog[i] = previous_chord /\ prog[i + 1] = numeral_str

ProgressionBonus(rules, previous_chord, numeral_str) ==
    IF previous_chord = None THEN 0
    ELSE ((3 * ScoreUnit) \div 10)
           * Cardinality({j \in 1..Len(rules.common_progressions) :
                 ProgressionFollows(rules.common_progressions[j], previous_chord, numeral_str)})

CadenceBonus(rules, numeral_str, is_cadence) ==
    IF ~is_cadence THEN 0
    ELSE (ScoreUnit \div 5)
           * Cardinality({j \in 1..Len(rules.cadence_patterns) :
                 numeral_str \in SeqToSet(rules.cadence_patterns[j])})

\* sorted(..., key = score, reverse = True)
SortByScore(cands) == StableSort(cands, LAMBDA x, y : x.score > y.score)

RECURSIVE CandidateLoop(_, _, _, _, _, _, _, _)
CandidateLoop(melody_notes, mel, rules, previous_chord, is_cadence, j, cands, rng) ==
    IF j > Len(rules.allowed_numerals) THEN [candidates |-> cands, rng |-> rng]
    ELSE LET numeral_str == rules.allowed_numerals[j]
         IN  IF ~Resolves(numeral_str, mel)
             THEN CandidateLoop(melody_notes, mel, rules, previous_chord, is_cadence,
                                j + 1, cands, rng)
             ELSE CandidateLoop(melody_notes, mel, rules, previous_chord, is_cadence, j + 1,
                     Append(cands,
                        [numeral |-> numeral_str,
                         score |-> MelodyFitScore(melody_notes, ChordNames(numeral_str, mel.key))
                                   + ProgressionBonus(rules, previous_chord, numeral_str)
                                   + CadenceBonus(rules, numeral_str, is_cadence)
                                   + Jitter(rng)]),
                     RngAdvance(rng))

\* The return of get_chord_candidates for the loop result r.
SortedCandidates(r) == [candidates |-> SortByScore(r.candidates), rng |-> r.rng]

\* Returns [candidates, rng]: one draw of the shared generator per
\* numeral that resolves.
get_chord_candidates(melody_notes, mel, rules, previous_chord, is_cadence, rng) ==
    SortedCandidates(CandidateLoop(melody_notes, mel, rules, previous_chord, is_cadence,
                                   1, <<>>, rng))

BassBonus(bass_motion_pref, interval) ==
    IF bass_motion_pref = "stepwise" /\ interval <= 2 THEN ScoreUnit \div 5
    ELSE IF bass_motion_pref = "fifths" /\ interval \in {5, 7} THEN ScoreUnit \div 5
    ELSE IF bass_motion_pref = "pedal" /\ interval = 0 THEN (3 * ScoreUnit) \div 10
    ELSE 0

WeightByBass(candidates, bass_motion_pref, previous_chord, mel) ==
    IF bass_motion_pref # "any" /\ previous_chord # None /\ Resolves(previous_chord, mel)
    THEN SortByScore(
            [i \in 1..Len(candidates) |->
                [numeral |-> candidates[i].numeral,
                 score |-> candidates[i].score
                           + BassBonus(bass_motion_pref,
                                Abs(BassPc(candidates[i].numeral, mel.key)
                                    - BassPc(previous_chord, mel.key)))]])
    ELSE candidates

ChordWeight(c) == Max2(ScoreUnit \div 10, c.score)

RECURSIVE SumChordWeights(_)
SumChordWeights(cands) ==
    IF cands = <<>> THEN 0 ELSE ChordWeight(Head(cands)) + SumChordWeights(Tail(cands))

\* r = random.random() * total with random.random() = word / 24.
RECURSIVE PickChord(_, _, _, _, _)
PickChord(top, cumulative, word, total, fallback) ==
    IF top = <<>> THEN fallback
    ELSE IF word * total <= 24 * (cumulative + ChordWeight(Head(top)))
         THEN Head(top).numeral
         ELSE PickChord(Tail(top), cumulative + ChordWeight(Head(top)), word, total, fallback)

\* TopCandidates with the whole list taken.
TopCandidatesAll(candidates) == candidates

\* candidates[:3] if len(candidates) >= 3 else candidates
TopCandidates(candidates) ==
    IF Len(candidates) >= 3 THEN SubSeq(candidates, 1, 3) ELSE candidates

\* "Weighted random selection" among the top of the weighted candidates.
SelectWeighted(weighted, rng) ==
    [numeral |-> PickChord(TopCandidates(weighted), 0, RngWord(rng),
                           SumChordWeights(TopCandidates(weighted)), weighted[1].numeral),
     rng |-> RngAdvance(rng)]

\* Returns [numeral, rng]; the fallback "I" draws nothing.
select_chord(candidates, bass_motion_pref, previous_chord, mel, rng) ==
    IF candidates = <<>> THEN [numeral |-> "I", rng |-> rng]
    ELSE SelectWeighted(WeightByBass(candidates, bass_motion_pref, previous_chord, mel), rng)

(***************************************************************************)
(* Scoring.  score_voice_leading is in twentieths, score_chord_melody_fit  *)
(* the pair [fit, count] with fit in units of 1/420 (the score is          *)
(* fit / (420 * count)), score_style_adherence in hundredths.              *)
(***************************************************************************)
ParallelFifths(curr, next) ==
    Cardinality({jk \in (1..(Len(curr) - 1)) \X (1..Len(curr)) :
        /\ jk[1] < jk[2]
        /\ (curr[jk[2]] - curr[jk[1]]) % 12 = 7
        /\ jk[1] <= Len(next) /\ jk[2] <= Len(next)
        /\ (next[jk[2]] - next[jk[1]]) % 12 = 7})

ParallelOctaves(curr, next) ==
    Cardinality({jk \in (1..(Len(curr) - 1)) \X (1..Len(curr)) :
        /\ jk[1] < jk[2]
        /\ curr[jk[1]] = curr[jk[2]]
        /\ jk[1] <= Len(next) /\ jk[2] <= Len(next)
        /\ next[jk[1]] = next[jk[2]]})

RECURSIVE TotalMotion(_, _, _)
TotalMotion(curr, next, i) ==
    IF i > Len(curr) THEN 0
    ELSE Min2(Abs(curr[i] - next[i]), 12 - Abs(curr[i] - next[i])) + TotalMotion(curr, next, i + 1)

SmoothMotion(curr, next) ==
    IF Len(curr) # Len(next) THEN 0
    ELSE IF TotalMotion(curr, next, 1) <= 2 * Len(curr) THEN 1
    ELSE IF TotalMotion(curr, next, 1) > 4 * Len(curr) THEN -1
    ELSE 0

\* The change of the score for one pair of chords of pitch classes curr
\* and next.
PcsVoiceLeading(curr, next, rules) ==
    (IF rules.avoid_parallel_fifths THEN -2 * ParallelFifths(curr, next) ELSE 0)
    + (IF rules.avoid_parallel_octaves THEN -2 * ParallelOctaves(curr, next) ELSE 0)
    + SmoothMotion(curr, next)

PairVoiceLeading(a, b, mel, rules) ==
    IF ~(Resolves(a, mel) /\ Resolves(b, mel)) THEN 0
    ELSE PcsVoiceLeading(ChordPcs(a, mel.key), ChordPcs(b, mel.key), rules)

RECURSIVE VoiceLeadingSum(_, _, _, _)
VoiceLeadingSum(progression, mel, rules, i) ==
    IF i >= Len(progression) THEN 0
    ELSE PairVoiceLeading(progression[i], progression[i + 1], mel, rules)
         + VoiceLeadingSum(progression, mel, rules, i + 1)

\* VoiceLeadingClamp without the clamp.
VoiceLeadingUnclamped(score) == score

VoiceLeadingClamp(score) == Max2(0, Min2(20, score))

score_voice_leading(progression, mel, rules) ==
    IF Len(progression) < 2 THEN 20
    ELSE VoiceLeadingClamp(20 + VoiceLeadingSum(progression, mel, rules, 1))

\* The window of the i-th chord when scoring: to the next chord point, or
\* one 4/4 measure for the last.
FitWindow(chord_points, i) ==
    IF i < Len(chord_points) THEN chord_points[i + 1] - chord_points[i] ELSE 16

RECURSIVE FitLoop(_, _, _, _, _, _)
FitLoop(progression, mel, chord_points, i, total_fit, count) ==
    IF i > Min2(Len(progression), Len(chord_points)) THEN [fit |-> total_fit, count |-> count]
    ELSE LET melody_notes == get_melody_notes_at(mel, chord_points[i],
                                                 FitWindow(chord_points, i))
             chord_pitches == SeqToSet(ChordNames(progression[i], mel.key))
         IN  IF Resolves(progression[i], mel) /\ melody_notes # {}
             THEN FitLoop(progression, mel, chord_points, i + 1,
                     total_fit + (420 \div Cardinality(melody_notes))
                                   * Cardinality(melody_notes \cap chord_pitches),
                     count + 1)
             ELSE FitLoop(progression, mel, chord_points, i + 1, total_fit, count)

\* total_fit / count if count > 0 else 0.5
FitOrNeutral(r) == IF r.count > 0 THEN r ELSE [fit |-> 210, count |-> 1]

score_chord_melody_fit(progression, mel, chord_points) ==
    IF progression = <<>> \/ chord_points = <<>> THEN [fit |-> 210, count |-> 1]
    ELSE FitOrNeutral(FitLoop(progression, mel, chord_points, 1, 0, 0))

\* The characters of a label: I = 1, V = 2, i = 3, v = 4, o = 5, m = 6,
\* a = 7, j = 8, 7 = 9; the separating space is 0.
Chars(label) ==
    CASE label = "I" -> <<1>>
      [] label = "i" -> <<3>>
      [] label = "ii" -> <<3, 3>>
      [] label = "II" -> <<1, 1>>
      [] label = "iii" -> <<3, 3, 3>>
      [] label = "III" -> <<1, 1, 1>>
      [] label = "IV" -> <<1, 2>>
      [] label = "V" -> <<2>>
      [] label = "vi" -> <<4, 3>>
      [] label = "VI" -> <<2, 1>>
      [] label = "viio" -> <<4, 3, 3, 5>>
      [] label = "VII" -> <<2, 1, 1>>
      [] label = "Imaj7" -> <<1, 6, 7, 8, 9>>
      [] label = "ii7" -> <<3, 3, 9>>
      [] label = "iii7" -> <<3, 3, 3, 9>>
      [] label = "IVmaj7" -> <<1, 2, 6, 7, 8, 9>>
      [] label = "V7" -> <<2, 9>>
      [] label = "vi7" -> <<4, 3, 9>>
      [] label = "viio7" -> <<4, 3, 3, 5, 9>>

\* " ".join(labels)
RECURSIVE Join(_)
Join(labels) ==
    IF labels = <<>> THEN <<>>
    ELSE IF Len(labels) = 1 THEN Chars(labels[1])
    ELSE Chars(Head(labels)) \o <<0>> \o Join(Tail(labels))

\* a in b, for strings
IsSubstring(a, b) ==
    \E k \in 1..(Len(b) - Len(a) + 1) : SubSeq(b, k, k + Len(a) - 1) = a

LastTwo(seq) == SubSeq(seq, Len(seq) - 1, Len(seq))

EndsInCadence(progression, rules) ==
    /\ Len(progression) >= 2
    /\ \E j \in 1..Len(rules.cadence_patterns) :
          /\ Len(rules.cadence_patterns[j]) >= 2
          /\ LastTwo(progression) = LastTwo(rules.cadence_patterns[j])

StyleClamp(score) == Min2(100, score)

score_style_adherence(progression, rules) ==
    StyleClamp(50
        + 20 * Cardinality({j \in 1..Len(rules.common_progressions) :
                  IsSubstring(Join(rules.common_progressions[j]), Join(progression))})
        + (IF EndsInCadence(progression, rules) THEN 15 ELSE 0))

\* round(num / den, 2) in hundredths, ties to even.
Round2(num, den) ==
    LET q == (100 * num) \div den
        r == (100 * num) % den
    IN  IF 2 * r < den THEN q
        ELSE IF 2 * r > den THEN q + 1
        ELSE IF q % 2 = 0 THEN q ELSE q + 1

\* (vl_score + cm_score + style_score) / 3 as numerator over 6300 * count.
OverallNumerator(vl, cm, style) == 105 * cm.count * vl + 5 * cm.fit + 21 * cm.count * style

\* The "scores" entry for the three scores, each rounded to hundredths.
RoundedScores(vl, cm, style) ==
    [voice_leading |-> Round2(vl, 20),
     chord_melody_fit |-> Round2(cm.fit, 420 * cm.count),
     style_adherence |-> Round2(style, 100),
     overall |-> Round2(OverallNumerator(vl, cm, style), 6300 * cm.count)]

\* "Score this harmonization".
HarmonizationScores(progression, mel, chord_points, rules) ==
    RoundedScores(score_voice_leading(progression, mel, rules),
                  score_chord_melody_fit(progression, mel, chord_points),
                  score_style_adherence(progression, rules))

(***************************************************************************)
(* reharmonize.  A request is [melody, style, chord_rhythm, bass_motion,   *)
(* num_options]; every random draw is on the module-level generator,       *)
(* whose state is passed in and handed back.                               *)
(***************************************************************************)
\* hash(request.melody) % 10000: fixed for a string within one process,
\* dependent on the process's hash salt.
MelodyHash(mel, salt) == (mel.id * 7919 + salt * 4001 + 17) % 10000

\* The argument of random.seed for an attempt.
AttemptSeed(attempt, mel, salt) == attempt * 1000 + MelodyHash(mel, salt)

\* The window of the i-th chord when choosing: to the next chord point, or
\* one measure of the melody's time signature for the last.
ChordWindow(chord_points, i, time_sig_num) ==
    IF i < Len(chord_points) THEN chord_points[i + 1] - chord_points[i] ELSE 4 * time_sig_num

PreviousChord(progression) ==
    IF progression # <<>> THEN progression[Len(progression)] ELSE None

\* is_cadence of the i-th chord point (1-based).
IsCadence(chord_points, i) == (i - 1) >= Len(chord_points) - 2

\* progression.append(selected)
Selected(progression, sel) ==
    [progression |-> Append(progression, sel.numeral), rng |-> sel.rng]

\* select_chord on the candidates c = [candidates, rng], and the append.
SelectFrom(req, mel, progression, c) ==
    Selected(progression,
             select_chord(c.candidates, req.bass_motion, PreviousChord(progression),
                          mel, c.rng))

\* One pass of the loop over chord_points (i is 1-based): [progression, rng].
ChooseChord(req, mel, rules, chord_points, i, progression, rng) ==
    SelectFrom(req, mel, progression,
               get_chord_candidates(
                   get_melody_notes_at(mel, chord_points[i],
                                       ChordWindow(chord_points, i, mel.ts_num)),
                   mel, rules, PreviousChord(progression), IsCadence(chord_points, i), rng))

\* The loop state after the pass that gave r = [progression, rng].
ProgressionStep(st, r) == [i |-> st.i + 1, progression |-> r.progression, rng |-> r.rng]

\* for i, offset in enumerate(chord_points), from st = [i, progression, rng].
RECURSIVE BuildProgression(_, _, _, _, _)
BuildProgression(req, mel, rules, chord_points, st) ==
    IF st.i > Len(chord_points) THEN [progression |-> st.progression, rng |-> st.rng]
    ELSE BuildProgression(req, mel, rules, chord_points,
             ProgressionStep(st, ChooseChord(req, mel, rules, chord_points, st.i,
                                             st.progression, st.rng)))

Harmonization(progression, mel, chord_points, rules) ==
    [progression |-> progression,
     scores |-> HarmonizationScores(progression, mel, chord_points, rules)]

NumAttempts(req) == req.num_options * 5

\* One attempt: the generator is re-seeded, then a progression is built.
Attempt(req, mel, rules, chord_points, attempt, salt) ==
    BuildProgression(req, mel, rules, chord_points,
                     [i |-> 1, progression |-> <<>>,
                      rng |-> RngSeeded(AttemptSeed(attempt, mel, salt))])

\* The loop state after the attempt that gave r = [progression, rng].
AttemptStep(st, r, mel, chord_points, rules) ==
    [attempt |-> st.attempt + 1,
     harmonizations |-> Append(st.harmonizations,
                               Harmonization(r.progression, mel, chord_points, rules)),
     rng |-> r.rng]

\* for attempt in range(num_attempts), from st = [attempt, harmonizations, rng].
RECURSIVE HarmonizeLoop(_, _, _, _, _, _)
HarmonizeLoop(req, mel, rules, chord_points, salt, st) ==
    IF st.attempt >= NumAttempts(req)
    THEN [harmonizations |-> st.harmonizations, rng |-> st.rng]
    ELSE HarmonizeLoop(req, mel, rules, chord_points, salt,
             AttemptStep(st, Attempt(req, mel, rules, chord_points, st.attempt, salt),
                         mel, chord_points, rules))

\* SortByOverall without the sort.
SortByOverallSkipped(hs) == hs

\* sorted(harmonizations, key = overall, reverse = True)
SortByOverall(hs) == StableSort(hs, LAMBDA x, y : x.scores.overall > y.scores.overall)

\* UniqueHarmonizations without the `seen` test.
UniqueHarmonizationsUnseen(sorted, seen, unique, num_options) ==
    SubSeq(sorted, 1, Min2(Len(sorted), num_options))

\* Keep the first of each progression, stop at num_options.
RECURSIVE UniqueHarmonizations(_, _, _, _)
UniqueHarmonizations(sorted, seen, unique, num_options) ==
    IF sorted = <<>> THEN unique
    ELSE LET h == Head(sorted)
             unique2 == IF h.progression \notin seen THEN Append(unique, h) ELSE unique
         IN  IF Len(unique2) >= num_options THEN unique2
             ELSE UniqueHarmonizations(Tail(sorted), seen \cup {h.progression}, unique2,
                                       num_options)

ResultHarmonizations(unique) ==
    [i \in 1..Len(unique) |->
        [rank |-> i, roman_numerals |-> unique[i].progression, scores |-> unique[i].scores]]

ReharmonizeData(req, mel, harmonizations) ==
    [detected_key |-> mel.key,
     chord_rhythm |-> req.chord_rhythm,
     style |-> req.style,
     harmonizations |->
        ResultHarmonizations(
            UniqueHarmonizations(SortByOverall(harmonizations), {}, <<>>,
                                 req.num_options))]

\* What parsing and the emptiness test make of the input: the exception
\* raised inside the try block, or Nil.
ParseFailure(mel) ==
    CASE mel.kind = "blank" -> Some(ComposerError("EMPTY_INPUT"))
      [] mel.kind = "garbage" -> Some(ComposerError("PARSE_ERROR"))
      [] mel.kind = "rests" -> Some(ComposerError("EMPTY_INPUT"))
      [] OTHER -> Nil

\* "Build response" for the loop result r = [harmonizations, rng].
ReharmonizeResponse(req, r) ==
    [out |-> success_response(ReharmonizeData(req, req.melody, r.harmonizations)),
     global |-> r.rng]

\* Returns [out, global].
reharmonize(req, global, salt) ==
    IF ParseFailure(req.melody) # Nil
    THEN [out |-> error_response(ParseFailure(req.melody)[1]), global |-> global]
    ELSE ReharmonizeResponse(req,
             HarmonizeLoop(req, req.melody, STYLE_RULES(req.style),
                           get_chord_points(req.melody, req.chord_rhythm,
                                            req.melody.ts_num),
                           salt,
                           [attempt |-> 0, harmonizations |-> <<>>, rng |-> global]))

(***************************************************************************)
(* The server process.  rngGlobal is the state of the module-level         *)
(* generator of `random`, hashSalt the process's string-hash salt, log the *)
(* requests served so far with their outcomes, workers the requests in     *)
(* progress on concurrent threads, sched the thread that ran last and the  *)
(* number of times a thread was preempted.                                 *)
(***************************************************************************)
VARIABLES rngGlobal, hashSalt, log, workers, sched

vars == <<rngGlobal, hashSalt, log, workers, sched>>

\* The seeds the module-level generator may have at process start.
BootSeeds == {-1, 70000}

Salts == {0, 1}

pC4 == Pitch(0, 0, 4)
pCs4 == Pitch(0, 1, 4)
pD4 == Pitch(1, 0, 4)
pE4 == Pitch(2, 0, 4)
pFs4 == Pitch(3, 1, 4)
pG3 == Pitch(4, 0, 3)
pG4 == Pitch(4, 0, 4)
pC5 == Pitch(0, 0, 5)
pC6 == Pitch(0, 0, 6)

CMajor == Key(<<0, 0>>, "major")
FMajor == Key(<<3, 0>>, "major")
AMinor == Key(<<5, 0>>, "minor")

MelodyRequest(k, lm, ts, lo, hi, contour, density, sn, en, leap, seed, ma) ==
    [key |-> k, length_measures |-> lm, time_signature |-> ts, range_low |-> lo,
     range_high |-> hi, contour |-> contour, rhythmic_density |-> density,
     start_note |-> sn, end_note |-> en, avoid_leaps_greater_than |-> leap,
     prefer_stepwise |-> 7, seed |-> seed, max_attempts |-> ma]

Ranges == {<<pC4, pC5>>, <<pC4, pC6>>, <<pG3, pG4>>, <<pE4, pC5>>, <<pC4, pD4>>, <<pC5, pC4>>}

\* Requests that vary the key and the range.
RangeRequests ==
    {MelodyRequest(k, 1, <<4, 4>>, r[1], r[2], "arch", "medium", Nil, Nil, None, seed, 1) :
        k \in {CMajor, FMajor, AMinor}, r \in Ranges, seed \in {Nil, Some(0)}}

\* Requests that vary the start note, the end note and the leap bound.
EndpointRequests ==
    {MelodyRequest(CMajor, 1, <<4, 4>>, r[1], r[2], "arch", "medium", sn, en, leap,
                   Some(1), ma) :
        r \in {<<pC4, pC5>>, <<pC4, pC6>>, <<pE4, pC5>>},
        sn \in {Nil, Some(pC4), Some(pCs4)}, en \in {Nil, Some(pC5), Some(pFs4), Some(pC6)},
        leap \in {None, "M2"}, ma \in {1, 3}}

\* Requests that vary the shape of the melody.
ShapeRequests ==
    {MelodyRequest(CMajor, lm, ts, pC4, pC5, contour, density, Nil, Nil, "P5", Some(0), 2) :
        lm \in {1, 2}, ts \in {<<4, 4>>, <<3, 4>>},
        contour \in {None, "arch", "ascending", "descending", "wave", "static"},
        density \in {"sparse", "medium", "dense"}}

\* Requests for one measure of 2/4 at sparse density, where every pattern
\* leaves a single half note.
OneNoteRequests ==
    {MelodyRequest(CMajor, 1, <<2, 4>>, pC4, pC5, "arch", "sparse", sn, en, None, Some(1), 1) :
        sn \in {Nil, Some(pC4), Some(pCs4)}, en \in {Nil, Some(pC5), Some(pFs4)}}

\* Requests with a leap bound, an end note and a budget of three attempts,
\* under several seeds.
RetryRequests ==
    {MelodyRequest(CMajor, 1, <<4, 4>>, pC4, pC5, contour, "medium", Nil, Some(pG4), leap,
                   Some(seed), 3) :
        contour \in {None, "arch"}, leap \in {"M2", "M3"}, seed \in {2, 3}}

MelodyRequests ==
    RangeRequests \cup EndpointRequests \cup ShapeRequests \cup OneNoteRequests
        \cup RetryRequests

MelodyNote(letter, alter, dur) == [name |-> <<letter, alter>>, dur |-> dur]

ParsedMelody(id, notes, k, ts_num, unresolved) ==
    [kind |-> "notes", id |-> id, notes |-> notes, key |-> k, ts_num |-> ts_num,
     unresolved |-> unresolved]

UnparsedMelody(id, kind) ==
    [kind |-> kind, id |-> id, notes |-> <<>>, key |-> CMajor, ts_num |-> 4,
     unresolved |-> {}]

\* C4:q D4:q E4:q F4:q D4:h B4:q C4:q
TuneC ==
    ParsedMelody(1, <<MelodyNote(0, 0, 4), MelodyNote(1, 0, 4), MelodyNote(2, 0, 4),
                      MelodyNote(3, 0, 4), MelodyNote(1, 0, 8), MelodyNote(6, 0, 4),
                      MelodyNote(0, 0, 4)>>, CMajor, 4, {})

\* G4:w
OneNote == ParsedMelody(2, <<MelodyNote(4, 0, 16)>>, CMajor, 4, {})

\* F4:q A4:e Bb4:e C5:q F#4:q E4:h in F major
TuneF ==
    ParsedMelody(3, <<MelodyNote(3, 0, 4), MelodyNote(5, 0, 2), MelodyNote(6, -1, 2),
                      MelodyNote(0, 0, 4), MelodyNote(3, 1, 4), MelodyNote(2, 0, 8)>>,
                 FMajor, 4, {})

\* E4:q G4:q C5:q, analysed to a key in which "I" and the seventh chords
\* do not resolve.
TuneOdd ==
    ParsedMelody(4, <<MelodyNote(2, 0, 4), MelodyNote(4, 0, 4), MelodyNote(0, 0, 4)>>,
                 CMajor, 4, {"I"} \cup SeqToSet(JAZZ_RULES.allowed_numerals))

\* C4:e E4:e G4:e C5:e G4:e E4:e C4:h
TuneArp ==
    ParsedMelody(5, <<MelodyNote(0, 0, 2), MelodyNote(2, 0, 2), MelodyNote(4, 0, 2),
                      MelodyNote(0, 0, 2), MelodyNote(4, 0, 2), MelodyNote(2, 0, 2),
                      MelodyNote(0, 0, 8)>>, CMajor, 4, {})

Melodies ==
    {TuneC, OneNote, TuneF, TuneOdd, TuneArp, UnparsedMelody(6, "blank"),
     UnparsedMelody(7, "garbage"), UnparsedMelody(8, "rests")}

ReharmonizeRequest(mel, style, chord_rhythm, bass_motion, num_options) ==
    [melody |-> mel, style |-> style, chord_rhythm |-> chord_rhythm,
     bass_motion |-> bass_motion, num_options |-> num_options]

\* Requests that vary the melody, the style and the chord rhythm.
StyleRequests ==
    {ReharmonizeRequest(mel, style, cr, "any", n) :
        mel \in Melodies, style \in {"classical", "jazz", "pop", "modal"},
        cr \in {"per_measure", "per_half", "per_beat"}, n \in {1, 2}}

\* Requests that vary the bass motion preference.
BassRequests ==
    {ReharmonizeRequest(mel, style, "per_half", bm, 3) :
        mel \in {TuneC, TuneOdd}, style \in {"classical", "jazz"},
        bm \in {"stepwise", "fifths", "pedal"}}

ReharmonizeRequests == StyleRequests \cup BassRequests

NoWorkers == [w \in {} |-> 0]

NotScheduled == [last |-> 0, preemptions |-> 0]

\* A fresh process that has served nothing.
Init ==
    /\ rngGlobal \in {RngSeeded(s) : s \in BootSeeds}
    /\ hashSalt \in Salts
    /\ log = <<>>
    /\ workers = NoWorkers
    /\ sched = NotScheduled

LogEntry(op, req, out) == [op |-> op, req |-> req, out |-> out]

\* The process serves one generate_melody request to completion.
ServeMelody(req) ==
    \E r \in {generate_melody(req, rngGlobal)} :
        /\ log' = Append(log, LogEntry("generate_melody", req, r.out))
        /\ rngGlobal' = r.global
        /\ UNCHANGED <<hashSalt, workers, sched>>

\* The process serves one reharmonize request to completion.
ServeReharmonize(req) ==
    \E r \in {reharmonize(req, rngGlobal, hashSalt)} :
        /\ log' = Append(log, LogEntry("reharmonize", req, r.out))
        /\ rngGlobal' = r.global
        /\ UNCHANGED <<hashSalt, workers, sched>>

\* One request to a fresh process.
Next ==
    /\ log = <<>>
    /\ \/ \E req \in MelodyRequests : ServeMelody(req)
       \/ \E req \in ReharmonizeRequests : ServeReharmonize(req)

Spec == Init /\ [][Next]_vars

(***************************************************************************)
(* A session: the process serves a bounded sequence of requests one after  *)
(* the other, and a client may re-issue a served generate_melody request   *)
(* with the seed that was echoed back.                                     *)
(***************************************************************************)
MaxSession == 4

SessionMelodyRequests ==
    {MelodyRequest(CMajor, 1, <<4, 4>>, pC4, pC5, "arch", "medium", Nil, Nil, None, seed, 1) :
        seed \in {Nil, Some(0)}}
    \cup {MelodyRequest(FMajor, 1, <<3, 4>>, pG3, pG4, "wave", "sparse", Some(pCs4), Nil, "M2",
                        Nil, 2)}

SessionReharmonizeRequests ==
    {ReharmonizeRequest(OneNote, "classical", "per_measure", "any", 1)}

\* The request of log entry i again, with seed = seed_used.
Replay(i) ==
    /\ log[i].op = "generate_melody"
    /\ log[i].out.kind = "returned" /\ log[i].out.success
    /\ ServeMelody([log[i].req EXCEPT !.seed = Some(log[i].out.data[1].seed_used)])

NextSeq ==
    /\ Len(log) < MaxSession
    /\ \/ \E req \in SessionMelodyRequests : ServeMelody(req)
       \/ \E req \in SessionReharmonizeRequests : ServeReharmonize(req)
       \/ \E i \in 1..Len(log) : Replay(i)

SpecSeq == Init /\ [][NextSeq]_vars

(***************************************************************************)
(* Two requests in progress at once on two threads of the process.  A      *)
(* thread gives way between two uses of the module-level generator: a      *)
(* reharmonize is the steps begin, then for each attempt random.seed and   *)
(* one step per chord point (get_chord_candidates and select_chord), then  *)
(* finish; a generate_melody touches the generator once, for its seed.     *)
(***************************************************************************)
Threads == {1, 2}

MaxPreemptions == 2

Worker(op, req) ==
    [op |-> op, req |-> req, pc |-> "start", attempt |-> 0, i |-> 1,
     progression |-> <<>>, harmonizations |-> <<>>, out |-> Nil]

ConcurrentReharmonizeRequests ==
    {ReharmonizeRequest(OneNote, "classical", "per_measure", "any", 1),
     ReharmonizeRequest(TuneOdd, "pop", "per_measure", "stepwise", 1)}

ConcurrentMelodyRequests ==
    {MelodyRequest(CMajor, 1, <<4, 4>>, pC4, pC5, "arch", "medium", Nil, Nil, None, seed, 1) :
        seed \in {Nil, Some(0)}}

\* reharmonize/reharmonize or reharmonize/generate_melody.
InitConc ==
    /\ rngGlobal \in {RngSeeded(s) : s \in BootSeeds}
    /\ hashSalt \in Salts
    /\ log = <<>>
    /\ sched = NotScheduled
    /\ \E r1 \in ConcurrentReharmonizeRequests :
          \/ \E r2 \in ConcurrentReharmonizeRequests :
                workers = [w \in Threads |->
                              IF w = 1 THEN Worker("reharmonize", r1)
                              ELSE Worker("reharmonize", r2)]
          \/ \E m \in ConcurrentMelodyRequests :
                workers = [w \in Threads |->
                              IF w = 1 THEN Worker("reharmonize", r1)
                              ELSE Worker("generate_melody", m)]

\* The thread that ran last keeps running, or it is done, or it is
\* preempted, which happens at most MaxPreemptions times.
Preempts(w) == sched.last \notin {0, w} /\ workers[sched.last].pc # "done"

Run(w) ==
    /\ Preempts(w) => sched.preemptions < MaxPreemptions
    /\ sched' = [last |-> w,
                 preemptions |-> IF Preempts(w) THEN sched.preemptions + 1
                                 ELSE sched.preemptions]

WorkerChordPoints(w) ==
    get_chord_points(workers[w].req.melody, workers[w].req.chord_rhythm,
                     workers[w].req.melody.ts_num)

\* parse_input, the emptiness test, key, rules and chord points.
ReharmonizeBegin(w) ==
    /\ Run(w)
    /\ workers[w].op = "reharmonize" /\ workers[w].pc = "start"
    /\ workers' = [workers EXCEPT ![w] =
          IF ParseFailure(workers[w].req.melody) # Nil
          THEN [@ EXCEPT !.pc = "done",
                         !.out = Some(error_response(
                                     ParseFailure(workers[w].req.melody)[1]))]
          ELSE [@ EXCEPT !.pc = "seed"]]
    /\ UNCHANGED <<rngGlobal, hashSalt, log>>

\* random.seed(attempt * 1000 + hash(request.melody) % 10000)
ReharmonizeSeed(w) ==
    /\ Run(w)
    /\ workers[w].op = "reharmonize" /\ workers[w].pc = "seed"
    /\ rngGlobal' = RngSeeded(AttemptSeed(workers[w].attempt, workers[w].req.melody,
                                          hashSalt))
    /\ workers' = [workers EXCEPT ![w] =
                      [@ EXCEPT !.pc = "choose", !.i = 1, !.progression = <<>>]]
    /\ UNCHANGED <<hashSalt, log>>

\* The chord of one chord point; after the last, the attempt is scored.
ReharmonizeChoose(w) ==
    /\ Run(w)
    /\ workers[w].op = "reharmonize" /\ workers[w].pc = "choose"
    /\ \E r \in {ChooseChord(workers[w].req, workers[w].req.melody,
                               STYLE_RULES(workers[w].req.style), WorkerChordPoints(w),
                               workers[w].i, workers[w].progression, rngGlobal)} :
          /\ rngGlobal' = r.rng
          /\ workers' = [workers EXCEPT ![w] =
                IF workers[w].i # Len(WorkerChordPoints(w))
                THEN [@ EXCEPT !.i = @ + 1, !.progression = r.progression]
                ELSE [@ EXCEPT !.progression = r.progression,
                               !.harmonizations =
                                   Append(@, Harmonization(r.progression,
                                                 workers[w].req.melody,
                                                 WorkerChordPoints(w),
                                                 STYLE_RULES(workers[w].req.style))),
                               !.attempt = @ + 1,
                               !.pc = IF workers[w].attempt + 1
                                           >= NumAttempts(workers[w].req)
                                      THEN "finish" ELSE "seed"]]
    /\ UNCHANGED <<hashSalt, log>>

\* Sort, keep the unique ones, respond.
ReharmonizeFinish(w) ==
    /\ Run(w)
    /\ workers[w].op = "reharmonize" /\ workers[w].pc = "finish"
    /\ workers' = [workers EXCEPT ![w] =
          [@ EXCEPT !.pc = "done",
                    !.out = Some(success_response(
                                ReharmonizeData(workers[w].req, workers[w].req.melody,
                                                workers[w].harmonizations)))]]
    /\ UNCHANGED <<rngGlobal, hashSalt, log>>

\* generate_melody on its thread: its one use of the module-level generator
\* is the draw of the seed; the rest is on the request's own generator.
MelodyRun(w) ==
    /\ Run(w)
    /\ workers[w].op = "generate_melody" /\ workers[w].pc = "start"
    /\ \E r \in {generate_melody(workers[w].req, rngGlobal)} :
          /\ rngGlobal' = r.global
          /\ workers' = [workers EXCEPT ![w] = [@ EXCEPT !.pc = "done", !.out = Some(r.out)]]
    /\ UNCHANGED <<hashSalt, log>>

NextConc ==
    \E w \in Threads :
        \/ ReharmonizeBegin(w)
        \/ ReharmonizeSeed(w)
        \/ ReharmonizeChoose(w)
        \/ ReharmonizeFinish(w)
        \/ MelodyRun(w)

SpecConc == InitConc /\ [][NextConc]_vars

(***************************************************************************)
(* The helper functions called on their own, as the unit tests call them:  *)
(* a fresh process holds one pending call, and applying the function puts  *)
(* its result in the place of the pending mark.                            *)
(***************************************************************************)
MaxMeasures == 3

MaxRhythmSeed == 3

MaxNumerator == 6

Pending == [kind |-> "pending"]

FnReturned(value) == [kind |-> "returned", value |-> value]

Call(op, args) == LogEntry(op, args, Pending)

TimeSignatures ==
    {<<4, 4>>, <<3, 4>>, <<2, 4>>, <<5, 4>>, <<0, 4>>, <<2, 2>>, <<6, 8>>, <<3, 8>>,
     <<7, 8>>, <<3, 16>>}

RhythmCalls ==
    {Call("generate_rhythm_pattern",
          [density |-> d, time_sig |-> ts, num_measures |-> m, seed |-> seed]) :
        d \in {"sparse", "medium", "dense"}, ts \in TimeSignatures,
        m \in 0..MaxMeasures, seed \in 0..MaxRhythmSeed}

pCb4 == Pitch(0, -1, 4)

BsMajor == Key(<<6, 1>>, "major")

DDorian == Key(<<1, 0>>, "dorian")

ScaleCalls ==
    {Call("get_scale_pitches_in_range", [key |-> k, range_low |-> lo, range_high |-> hi]) :
        k \in {CMajor, FMajor, AMinor, DDorian, BsMajor},
        lo \in {pG3, pCb4, pC4, pE4, pC5}, hi \in {pC4, pD4, pG4, pC5, pC6}}

\* Eight quarter notes on C4.
EightQuarters ==
    ParsedMelody(6, [i \in 1..8 |-> MelodyNote(0, 0, 4)], CMajor, 4, {})

ChordPointCalls ==
    {Call("get_chord_points", [melody |-> mel, chord_rhythm |-> cr, time_sig_numerator |-> num]) :
        mel \in {TuneC, OneNote, TuneF, TuneOdd, TuneArp, EightQuarters},
        cr \in {"per_measure", "per_half", "per_beat"}, num \in 1..MaxNumerator}

\* Calls of get_chord_candidates: the names sounding in the slot, the
\* melody for its key, the style, the previous label, the cadence flag and
\* the seed the module-level generator was given.
CandidateCalls ==
    {Call("get_chord_candidates",
          [melody_notes |-> notes, melody |-> mel, style |-> style,
           previous_chord |-> prev, is_cadence |-> cad, seed |-> seed]) :
        notes \in {{}, {<<0, 0>>}, {<<2, 0>>, <<4, 0>>}, {<<3, 0>>}, {<<2, 1>>}},
        mel \in {TuneC, TuneOdd},
        style \in {"classical", "jazz", "pop", "modal"},
        prev \in {None, "I", "IV", "V", "V7", "vi"}, cad \in BOOLEAN, seed \in {0, 1}}

MaxProgression == 4

\* Calls of score_style_adherence on the classical label sequences of up to
\* MaxProgression labels, and on two longer ones and a jazz one.
StyleCalls ==
    {Call("score_style_adherence", [progression |-> prog, style |-> "classical"]) :
        prog \in UNION {[1..n -> {"I", "ii", "IV", "V", "vi"}] : n \in 0..MaxProgression}}
    \cup {Call("score_style_adherence", [progression |-> prog, style |-> "classical"]) :
            prog \in {<<"I", "IV", "V", "I", "vi", "IV", "V">>,
                      <<"I", "ii", "V", "I", "IV", "V", "I">>}}
    \cup {Call("score_style_adherence",
                [progression |-> <<"ii7", "V7", "Imaj7">>, style |-> "jazz"])}

MaxSelectSeed == 11

Scored(numeral, score) == [numeral |-> numeral, score |-> score]

\* Candidate lists as get_chord_candidates returns them, best first, with
\* scores in units of 1/4200: three candidates, a single one, four with
\* negative scores among the first three, and five close ones.
CandidateLists ==
    {<<Scored("I", 4200), Scored("IV", 3360), Scored("V", 2940)>>,
     <<Scored("V", 3780), Scored("ii", 3360), Scored("vi", 2940)>>,
     <<Scored("vi", -500)>>,
     <<Scored("I", 1000), Scored("IV", -300), Scored("V", -800), Scored("vi", -1200)>>,
     <<Scored("I", 2000), Scored("ii", 1900), Scored("iii", 1800), Scored("IV", 1700),
       Scored("V", 1600), Scored("vi", 1500)>>}

SelectCalls ==
    {Call("select_chord",
          [candidates |-> cands, bass_motion_pref |-> bm, previous_chord |-> prev,
           melody |-> TuneC, seed |-> seed]) :
        cands \in CandidateLists, bm \in {"any", "stepwise", "fifths", "pedal"},
        prev \in {None, "I", "V"}, seed \in 0..MaxSelectSeed}

(***************************************************************************)
(* Chord realization (core/harmony.py).  A voicing is a sequence of        *)
(* pitches; realize_chord returns the notes of the voicing it built.       *)
(***************************************************************************)
INSTRUMENT_RANGES(instrument) ==
    CASE instrument = "guitar" -> [low |-> Pitch(2, 0, 2), high |-> Pitch(2, 0, 6), max_notes |-> 6]
      [] instrument = "satb" -> [low |-> Pitch(2, 0, 2), high |-> Pitch(5, 0, 5), max_notes |-> 4]
      [] instrument = "strings" -> [low |-> Pitch(0, 0, 2), high |-> Pitch(2, 0, 6), max_notes |-> 4]
      [] OTHER -> [low |-> Pitch(5, 0, 0), high |-> Pitch(0, 0, 8), max_notes |-> 10]

\* The pitches music21's ChordSymbol gives the chord symbols of the model:
\* the root in octave 3, the chord tones above it, and the whole chord an
\* octave lower when a tone would lie above C4.
parse_chord_symbol(symbol) ==
    CASE symbol = "C" -> <<Pitch(0, 0, 3), Pitch(2, 0, 3), Pitch(4, 0, 3)>>
      [] symbol = "G" -> <<Pitch(4, 0, 2), Pitch(6, 0, 2), Pitch(1, 0, 3)>>
      [] symbol = "G7" -> <<Pitch(4, 0, 2), Pitch(6, 0, 2), Pitch(1, 0, 3), Pitch(3, 0, 3)>>
      [] symbol = "C7" -> <<Pitch(0, 0, 3), Pitch(2, 0, 3), Pitch(4, 0, 3), Pitch(6, -1, 3)>>
      [] symbol = "Cmaj7" -> <<Pitch(0, 0, 3), Pitch(2, 0, 3), Pitch(4, 0, 3), Pitch(6, 0, 3)>>

OctaveShift(p, by) == [p EXCEPT !.octave = @ + by]

\* while new_p.midi <= floor: new_p.octave += 1
RECURSIVE RaiseAbove(_, _)
RaiseAbove(p, floor) ==
    IF Midi(p) <= floor THEN RaiseAbove(OctaveShift(p, 1), floor) ELSE p

\* The loop of close_voicing from pitches[i] on.
RECURSIVE StackFrom(_, _, _)
StackFrom(pitches, i, result) ==
    IF i > Len(pitches) THEN result
    ELSE StackFrom(pitches, i + 1,
                   Append(result, RaiseAbove(pitches[i], Midi(result[Len(result)]))))

Inverted(pitches, inversion) ==
    IF inversion > 0 /\ inversion < Len(pitches)
    THEN SubSeq(pitches, inversion + 1, Len(pitches)) \o SubSeq(pitches, 1, inversion)
    ELSE pitches

close_voicing(pitches, inversion) ==
    IF pitches = <<>> THEN <<>>
    ELSE StackFrom(Inverted(pitches, inversion), 2, <<Inverted(pitches, inversion)[1]>>)

\* open_voicing on the close voicing it starts from.
Opened(close) ==
    IF Len(close) < 4 THEN close
    ELSE SortByMidi([i \in 1..Len(close) |->
                        IF (i - 1) % 2 = 1 /\ i - 1 < Len(close) - 1
                        THEN OctaveShift(close[i], 1) ELSE close[i]])

open_voicing(pitches, inversion) == Opened(close_voicing(pitches, inversion))

\* drop2_voicing and drop3_voicing on the close voicing they start from:
\* the note `from_top` places from the top goes down an octave.
Dropped(close, from_top) ==
    IF Len(close) < 4 THEN close
    ELSE SortByMidi([close EXCEPT ![Len(close) + 1 - from_top] = OctaveShift(@, -1)])

drop2_voicing(pitches) == Dropped(close_voicing(pitches, 0), 2)

drop3_voicing(pitches) == Dropped(close_voicing(pitches, 0), 3)

\* current.transpose("P4")
TransposeP4(p) ==
    LET letter == (p.letter + 3) % 7
        octave == p.octave + ((p.letter + 3) \div 7)
    IN  Pitch(letter, Midi(p) + 5 - Midi(Pitch(letter, 0, octave)), octave)

quartal_voicing(root) ==
    <<root, TransposeP4(root), TransposeP4(TransposeP4(root)),
      TransposeP4(TransposeP4(TransposeP4(root)))>>

\* while new_p.midi < low.midi: new_p.octave += 1
RECURSIVE RaisedTo(_, _)
RaisedTo(p, low) == IF Midi(p) < Midi(low) THEN RaisedTo(OctaveShift(p, 1), low) ELSE p

\* while new_p.midi > high.midi: new_p.octave -= 1
RECURSIVE LoweredTo(_, _)
LoweredTo(p, high) == IF Midi(p) > Midi(high) THEN LoweredTo(OctaveShift(p, -1), high) ELSE p

\* The pitches of apply_range_constraints that fit the range after the
\* octave shifts.
RECURSIVE FitRange(_, _, _, _, _)
FitRange(pitches, i, low, high, result) ==
    IF i > Len(pitches) THEN result
    ELSE FitRange(pitches, i + 1, low, high,
                  IF /\ Midi(low) <= Midi(LoweredTo(RaisedTo(pitches[i], low), high))
                     /\ Midi(LoweredTo(RaisedTo(pitches[i], low), high)) <= Midi(high)
                  THEN Append(result, LoweredTo(RaisedTo(pitches[i], low), high))
                  ELSE result)

\* result[:max_notes]
LimitNotes(result, max_notes) ==
    IF Len(result) > max_notes THEN SubSeq(result, 1, max_notes) ELSE result

\* The range is the request's where it gives one, else the instrument's.
apply_range_constraints(pitches, range_low, range_high, instrument) ==
    SortByMidi(LimitNotes(FitRange(pitches, 1,
                                   IF range_low # Nil THEN range_low[1]
                                   ELSE INSTRUMENT_RANGES(instrument).low,
                                   IF range_high # Nil THEN range_high[1]
                                   ELSE INSTRUMENT_RANGES(instrument).high, <<>>),
                          INSTRUMENT_RANGES(instrument).max_notes))

\* The slash chord of realize_chord: the bass note before the chord's
\* pitches of another name.
WithBass(pitches, bass_note) ==
    IF bass_note = Nil THEN pitches
    ELSE <<bass_note[1]>> \o Filtered(pitches, LAMBDA j : PitchName(pitches[j]) # PitchName(bass_note[1]))

VoicedAs(pitches, voicing_style, inversion) ==
    CASE voicing_style = "open" -> open_voicing(pitches, inversion)
      [] voicing_style = "drop2" -> drop2_voicing(pitches)
      [] voicing_style = "drop3" -> drop3_voicing(pitches)
      [] voicing_style = "quartal" -> quartal_voicing(pitches[1])
      [] OTHER -> close_voicing(pitches, inversion)

\* The notes of the voicing realize_chord returns.
realize_chord(request) ==
    apply_range_constraints(
        VoicedAs(WithBass(parse_chord_symbol(request.chord_symbol), request.bass_note),
                 request.voicing_style, request.inversion),
        request.range_low, request.range_high, request.instrument)

\* Calls of realize_chord on triads and seventh chords, with and without a
\* bass note, in every voicing style.
RealizeCalls ==
    {Call("realize_chord",
          [chord_symbol |-> symbol, voicing_style |-> style, instrument |-> instrument,
           inversion |-> inversion, bass_note |-> bass, range_low |-> low,
           range_high |-> Nil]) :
        symbol \in {"C", "G", "G7", "C7", "Cmaj7"},
        style \in {"close", "open", "drop2", "drop3", "quartal"},
        instrument \in {"piano", "satb"}, inversion \in 0..2,
        bass \in {Nil, Some(Pitch(1, 0, 3)), Some(Pitch(6, 0, 2)), Some(Pitch(6, -1, 2))},
        low \in {Nil, Some(pC4)}}

\* Calls of select_next_pitch on the C major pitches of C4..C5, at slot i
\* of 4, from a current pitch on the scale, off it, or far above it.
NextPitchCalls ==
    {Call("select_next_pitch",
          [current |-> cur, scale_pitches |-> get_scale_pitches_in_range(CMajor, pC4, pC5),
           i |-> i, n |-> 4, contour |-> contour, prefer_stepwise |-> 7,
           max_leap |-> leap, seed |-> seed]) :
        cur \in {pC4, pE4, pG4, pC5, pCs4, pC6}, i \in {0, 2},
        contour \in {None, "ascending", "static"}, leap \in {None, "P1", "M2", "P5"},
        seed \in 0..MaxSelectSeed}

FnCalls ==
    RhythmCalls \cup ScaleCalls \cup ChordPointCalls \cup CandidateCalls \cup StyleCalls
        \cup SelectCalls \cup NextPitchCalls \cup RealizeCalls

\* A fresh process and one call not yet made.
InitFn ==
    /\ rngGlobal = RngSeeded(-1)
    /\ hashSalt = 0
    /\ log \in {<<c>> : c \in FnCalls}
    /\ workers = NoWorkers
    /\ sched = NotScheduled

PendingCall(op) == log[1].op = op /\ log[1].out.kind = "pending"

\* generate_rhythm_pattern(density, time_sig, num_measures, random.Random(seed))
ApplyRhythm ==
    /\ PendingCall("generate_rhythm_pattern")
    /\ \E r \in {generate_rhythm_pattern(log[1].req.density, log[1].req.time_sig,
                                          log[1].req.num_measures,
                                          RngSeeded(log[1].req.seed))} :
           log' = <<LogEntry(log[1].op, log[1].req, FnReturned(r.rhythm))>>
    /\ UNCHANGED <<rngGlobal, hashSalt, workers, sched>>

\* get_scale_pitches_in_range(k, range_low, range_high)
ApplyScale ==
    /\ PendingCall("get_scale_pitches_in_range")
    /\ \E r \in {IF InvalidRange(log[1].req.range_low, log[1].req.range_high)
                  THEN Raised(ComposerError("INVALID_RANGE"))
                  ELSE FnReturned(get_scale_pitches_in_range(log[1].req.key,
                                                             log[1].req.range_low,
                                                             log[1].req.range_high))} :
           log' = <<LogEntry(log[1].op, log[1].req, r)>>
    /\ UNCHANGED <<rngGlobal, hashSalt, workers, sched>>

\* get_chord_points(melody, chord_rhythm, time_sig_numerator)
ApplyChordPoints ==
    /\ PendingCall("get_chord_points")
    /\ \E r \in {get_chord_points(log[1].req.melody, log[1].req.chord_rhythm,
                                   log[1].req.time_sig_numerator)} :
           log' = <<LogEntry(log[1].op, log[1].req, FnReturned(r))>>
    /\ UNCHANGED <<rngGlobal, hashSalt, workers, sched>>

\* get_chord_candidates(melody_notes, music_key, rules, previous_chord,
\* is_cadence) after random.seed(seed)
ApplyCandidates ==
    /\ PendingCall("get_chord_candidates")
    /\ \E r \in {get_chord_candidates(log[1].req.melody_notes, log[1].req.melody,
                                       STYLE_RULES(log[1].req.style),
                                       log[1].req.previous_chord, log[1].req.is_cadence,
                                       RngSeeded(log[1].req.seed))} :
           log' = <<LogEntry(log[1].op, log[1].req, FnReturned(r.candidates))>>
    /\ UNCHANGED <<rngGlobal, hashSalt, workers, sched>>

\* score_style_adherence(progression, rules)
ApplyStyle ==
    /\ PendingCall("score_style_adherence")
    /\ \E r \in {score_style_adherence(log[1].req.progression,
                                        STYLE_RULES(log[1].req.style))} :
           log' = <<LogEntry(log[1].op, log[1].req, FnReturned(r))>>
    /\ UNCHANGED <<rngGlobal, hashSalt, workers, sched>>

\* select_chord(candidates, bass_motion_pref, previous_chord, music_key)
\* after random.seed(seed)
ApplySelect ==
    /\ PendingCall("select_chord")
    /\ \E r \in {select_chord(log[1].req.candidates, log[1].req.bass_motion_pref,
                               log[1].req.previous_chord, log[1].req.melody,
                               RngSeeded(log[1].req.seed))} :
           log' = <<LogEntry(log[1].op, log[1].req, FnReturned(r.numeral))>>
    /\ UNCHANGED <<rngGlobal, hashSalt, workers, sched>>

\* select_next_pitch(current, scale_pitches, i / n, contour,
\* prefer_stepwise, max_leap, random.Random(seed))
ApplyNextPitch ==
    /\ PendingCall("select_next_pitch")
    /\ \E r \in {select_next_pitch(log[1].req.current, log[1].req.scale_pitches,
                                    log[1].req.i, log[1].req.n, log[1].req.contour,
                                    log[1].req.prefer_stepwise, log[1].req.max_leap,
                                    RngSeeded(log[1].req.seed))} :
           log' = <<LogEntry(log[1].op, log[1].req, FnReturned(r.pitch))>>
    /\ UNCHANGED <<rngGlobal, hashSalt, workers, sched>>

\* realize_chord(request)
ApplyRealize ==
    /\ PendingCall("realize_chord")
    /\ \E r \in {realize_chord(log[1].req)} :
           log' = <<LogEntry(log[1].op, log[1].req, FnReturned(r))>>
    /\ UNCHANGED <<rngGlobal, hashSalt, workers, sched>>

NextFn ==
    \/ ApplyRealize
    \/ ApplyNextPitch
    \/ ApplySelect
    \/ ApplyRhythm
    \/ ApplyScale
    \/ ApplyChordPoints
    \/ ApplyCandidates
    \/ ApplyStyle

SpecFn == InitFn /\ [][NextFn]_vars

(***************************************************************************)
(* Properties of single requests.                                          *)
(***************************************************************************)
Served(op) == {i \in 1..Len(log) : log[i].op = op}

Succeeded(i) == log[i].out.kind = "returned" /\ log[i].out.success

NotePitches(i) ==
    [j \in 1..Len(log[i].out.data[1].notes) |-> log[i].out.data[1].notes[j].pitch]

Realizable(req) ==
    /\ ~InvalidRange(req.range_low, req.range_high)
    /\ Len(get_scale_pitches_in_range(req.key, req.range_low, req.range_high)) >= 3

\* C1: whenever the scale has at least 3 pitches in [range_low, range_high],
\* generate_melody returns a melody after between 1 and max_attempts
\* attempts, and every pitch of it (a substituted start note and a forced
\* end note included) has its midi value within the range.
C1_PitchesInRangeWithinBudget ==
    \A i \in Served("generate_melody") :
        Realizable(log[i].req) =>
            /\ Succeeded(i)
            /\ log[i].out.data[1].attempts \in 1..log[i].req.max_attempts
            /\ AllInRange(log[i].req, NotePitches(i))

\* A melody returned after the whole budget of three attempts, with the
\* start note substituted and the end note adjusted.
C1_Witness ==
    \E i \in Served("generate_melody") :
        /\ Realizable(log[i].req)
        /\ Succeeded(i)
        /\ log[i].out.data[1].attempts = 3
        /\ Len(log[i].out.warnings) = 2

Harmonizations(i) == log[i].out.data[1].harmonizations

\* C6: a successful reharmonize response for a melody with at least one
\* note holds between 1 and num_options harmonizations, no two of them with
\* the same sequence of roman numerals.
C6_DistinctAndBounded ==
    \A i \in Served("reharmonize") :
        (Succeeded(i) /\ log[i].req.melody.notes # <<>>) =>
            /\ Len(Harmonizations(i)) \in 1..log[i].req.num_options
            /\ \A a, b \in 1..Len(Harmonizations(i)) :
                  a # b => Harmonizations(i)[a].roman_numerals
                           # Harmonizations(i)[b].roman_numerals

\* A response with all three harmonizations asked for.
C6_Witness ==
    \E i \in Served("reharmonize") :
        /\ Succeeded(i)
        /\ Len(Harmonizations(i)) = 3
        /\ log[i].req.num_options = 3

ScoreFields(sc) == <<sc.voice_leading, sc.chord_melody_fit, sc.style_adherence, sc.overall>>

\* C7: in every returned harmonization the four scores (in hundredths) lie
\* in 0..100, and overall is the mean of the other three up to the rounding
\* of the scores to two decimals: three times overall is within 2
\* hundredths of their sum.
C7_ScoresInUnitInterval ==
    \A i \in Served("reharmonize") :
        Succeeded(i) =>
            \A h \in 1..Len(Harmonizations(i)) :
                LET sc == Harmonizations(i)[h].scores
                IN  /\ \A f \in 1..4 : ScoreFields(sc)[f] \in 0..100
                    /\ Abs(3 * sc.overall
                           - (sc.voice_leading + sc.chord_melody_fit + sc.style_adherence))
                       <= 2

\* A harmonization whose voice leading is at the upper clamp while the
\* other two scores differ from it and from each other.
C7_Witness ==
    \E i \in Served("reharmonize") :
        /\ Succeeded(i)
        /\ \E h \in 1..Len(Harmonizations(i)) :
              LET sc == Harmonizations(i)[h].scores
              IN  /\ sc.voice_leading = 100
                  /\ sc.chord_melody_fit < sc.style_adherence
                  /\ sc.style_adherence < 100

\* C8: in every reharmonize response the ranks are 1, 2, ..., N in list
\* order and the overall score never increases from one rank to the next.
C8_RanksOrdered ==
    \A i \in Served("reharmonize") :
        Succeeded(i) =>
            /\ \A h \in 1..Len(Harmonizations(i)) : Harmonizations(i)[h].rank = h
            /\ \A h \in 1..(Len(Harmonizations(i)) - 1) :
                  Harmonizations(i)[h + 1].scores.overall
                      <= Harmonizations(i)[h].scores.overall

\* A response of three ranks whose overall scores strictly fall.
C8_Witness ==
    \E i \in Served("reharmonize") :
        /\ Succeeded(i)
        /\ Len(Harmonizations(i)) = 3
        /\ Harmonizations(i)[3].rank = 3
        /\ Harmonizations(i)[2].scores.overall < Harmonizations(i)[1].scores.overall
        /\ Harmonizations(i)[3].scores.overall < Harmonizations(i)[2].scores.overall

\* C9: a successful response to a request with a max-leap bound has no two
\* adjacent pitches further apart than the bound.
C9_NoLeapBeyondBound ==
    \A i \in Served("generate_melody") :
        (Succeeded(i) /\ log[i].req.avoid_leaps_greater_than # None) =>
            LeapsOk(NotePitches(i), log[i].req.avoid_leaps_greater_than)

\* C10: every outcome of generate_melody and reharmonize is a returned
\* envelope: a failure has success false, no data and an error detail, a
\* success has no error detail; no exception escapes.
C10_UniformEnvelope ==
    \A i \in 1..Len(log) :
        /\ log[i].out.kind = "returned"
        /\ log[i].out.success => log[i].out.error = Nil
        /\ ~log[i].out.success => (log[i].out.data = Nil /\ log[i].out.error # Nil)

\* The outcome of log entry i is a failure with the given error code,
\* raised or returned.
FailedWith(i, code) ==
    /\ ~log[i].out.success
    /\ log[i].out.data = Nil
    /\ \/ log[i].out.kind = "raised" /\ log[i].out.exc[1].code = code
       \/ log[i].out.kind = "returned" /\ log[i].out.error[1].code = code

\* The module-level generator is as it was when the process started.
GeneratorUntouched == rngGlobal \in {RngSeeded(s) : s \in BootSeeds}

\* C11: a request whose range_low is not below range_high fails with
\* INVALID_RANGE, one whose scale has fewer than 3 pitches in the range
\* fails with UNSATISFIABLE_CONSTRAINTS, and in both cases no seed has been
\* drawn from the module-level generator and no attempt has run.
C11_RangeErrorsBeforeSeeding ==
    \A i \in Served("generate_melody") :
        LET req == log[i].req IN
        /\ Midi(req.range_low) >= Midi(req.range_high) =>
               FailedWith(i, "INVALID_RANGE") /\ GeneratorUntouched
        /\ (Midi(req.range_low) < Midi(req.range_high)
            /\ Len(get_scale_pitches_in_range(req.key, req.range_low, req.range_high)) < 3) =>
               FailedWith(i, "UNSATISFIABLE_CONSTRAINTS") /\ GeneratorUntouched

\* An unseeded request for C major over C4..D4 has failed.
C11_Witness ==
    \E i \in Served("generate_melody") :
        /\ log[i].req.seed = Nil
        /\ log[i].req.range_low = pC4 /\ log[i].req.range_high = pD4
        /\ FailedWith(i, "UNSATISFIABLE_CONSTRAINTS")

ScaleOf(req) == get_scale_pitches_in_range(req.key, req.range_low, req.range_high)

\* p is a pitch of the scale of the request's range as near to target, in
\* semitones, as any.
NearestInScale(req, p, target) ==
    /\ InScaleByMidi(ScaleOf(req), p)
    /\ \A j \in 1..Len(ScaleOf(req)) :
           Abs(Midi(p) - Midi(target)) <= Abs(Midi(ScaleOf(req)[j]) - Midi(target))

\* The request of log entry i names a start note that is no scale pitch of
\* its range.
StartOffScale(i) ==
    /\ Realizable(log[i].req)
    /\ log[i].req.start_note # Nil
    /\ ~InScaleByMidi(ScaleOf(log[i].req), log[i].req.start_note[1])

HasWarning(i, code) == \E j \in 1..Len(log[i].out.warnings) : log[i].out.warnings[j].code = code

\* C12 as stated: a start note off the scale still gives a successful
\* response whose first note is a scale pitch nearest to the requested one
\* and whose warnings hold START_NOTE_ADJUSTED.
C12_AdjustedStartIsFirstNote ==
    \A i \in Served("generate_melody") :
        StartOffScale(i) =>
            /\ Succeeded(i)
            /\ NearestInScale(log[i].req, NotePitches(i)[1], log[i].req.start_note[1])
            /\ HasWarning(i, "START_NOTE_ADJUSTED")

\* C12: a start note off the scale still gives a successful response whose
\* warnings hold START_NOTE_ADJUSTED, and the first note is a scale pitch
\* nearest to the requested one unless the melody has a single note and an
\* end note is requested.
C12_AdjustedStart ==
    \A i \in Served("generate_melody") :
        StartOffScale(i) =>
            /\ Succeeded(i)
            /\ HasWarning(i, "START_NOTE_ADJUSTED")
            /\ (Len(NotePitches(i)) > 1 \/ log[i].req.end_note = Nil) =>
                   NearestInScale(log[i].req, NotePitches(i)[1], log[i].req.start_note[1])

\* C#4 was requested in C major with an end note, and the melody of several
\* notes starts on C4 with the warning.
C12_Witness ==
    \E i \in Served("generate_melody") :
        /\ StartOffScale(i) /\ Succeeded(i)
        /\ log[i].req.end_note # Nil
        /\ Len(NotePitches(i)) > 1
        /\ NotePitches(i)[1] = pC4
        /\ HasWarning(i, "START_NOTE_ADJUSTED")

\* The request of log entry i names a start note that is a scale pitch of
\* its range.
StartOnScale(i) ==
    /\ Realizable(log[i].req)
    /\ log[i].req.start_note # Nil
    /\ InScaleByMidi(ScaleOf(log[i].req), log[i].req.start_note[1])

\* C13 as stated: a start note that is a scale pitch of the range is the
\* pitch of the first note, whatever the end note setting.
C13_StartNoteIsFirstNote ==
    \A i \in Served("generate_melody") :
        StartOnScale(i) =>
            Succeeded(i) /\ NotePitches(i)[1] = log[i].req.start_note[1]

\* C13: a start note that is a scale pitch of the range is the pitch of the
\* first note, unless the melody has a single note and an end note is
\* requested.
C13_StartNoteKept ==
    \A i \in Served("generate_melody") :
        StartOnScale(i) =>
            /\ Succeeded(i)
            /\ (Len(NotePitches(i)) > 1 \/ log[i].req.end_note = Nil) =>
                   NotePitches(i)[1] = log[i].req.start_note[1]

\* C4 was requested as start note and C5 as end note, and the melody of
\* several notes starts on C4.
C13_Witness ==
    \E i \in Served("generate_melody") :
        /\ StartOnScale(i) /\ Succeeded(i)
        /\ log[i].req.end_note = Some(pC5)
        /\ Len(NotePitches(i)) > 1
        /\ NotePitches(i)[1] = pC4

\* C14: the last note of a melody returned for a request with an end note
\* has the end note's midi value when that is a scale pitch of the range,
\* and is otherwise a scale pitch nearest to it.
C14_EndNoteIsLastNote ==
    \A i \in Served("generate_melody") :
        (Succeeded(i) /\ log[i].req.end_note # Nil) =>
            LET last == NotePitches(i)[Len(NotePitches(i))]
                en == log[i].req.end_note[1]
            IN  IF InScaleByMidi(ScaleOf(log[i].req), en)
                THEN Midi(last) = Midi(en)
                ELSE NearestInScale(log[i].req, last, en)

\* F#4 was requested as end note in C major, and the melody of several
\* notes ends a semitone from it with END_NOTE_ADJUSTED.
C14_Witness ==
    \E i \in Served("generate_melody") :
        /\ Succeeded(i)
        /\ Len(NotePitches(i)) > 1
        /\ log[i].req.end_note = Some(pFs4)
        /\ Abs(Midi(NotePitches(i)[Len(NotePitches(i))]) - Midi(pFs4)) = 1
        /\ HasWarning(i, "END_NOTE_ADJUSTED")

\* The scores and the final pitches of the attempts made for log entry i,
\* in the order of the attempts.
AttemptScores(i) == log[i].out.data[1].scores

AttemptPitches(i) == log[i].out.data[1].tried

\* Every two adjacent pitches are at most the interval `bound` apart.
WithinBound(pitches, bound) ==
    \A j \in 1..(Len(pitches) - 1) :
        /\ Midi(pitches[j + 1]) - Midi(pitches[j]) <= IntervalSemitones(bound)
        /\ Midi(pitches[j]) - Midi(pitches[j + 1]) <= IntervalSemitones(bound)

\* The point an attempt gets for staying in the range.
RangePoint(req, pitches) ==
    IF \A j \in 1..Len(pitches) :
          Midi(pitches[j]) \in Midi(req.range_low)..Midi(req.range_high)
    THEN 1 ELSE 0

\* C19: with a max-leap bound, an attempt has the second point in its score
\* exactly when all adjacent notes of the attempt, the last one being the
\* one left by the end note constraint, are within the bound.
C19_LeapPointIffWithinBound ==
    \A i \in Served("generate_melody") :
        (Succeeded(i) /\ log[i].req.avoid_leaps_greater_than # None) =>
            \A a \in 1..Len(AttemptScores(i)) :
                (AttemptScores(i)[a] - RangePoint(log[i].req, AttemptPitches(i)[a]) = 1)
                    <=> WithinBound(AttemptPitches(i)[a], log[i].req.avoid_leaps_greater_than)

\* With the bound M2 and an end note, one attempt got the second point and
\* an earlier one, whose end note is a leap away from the note before it,
\* did not.
C19_Witness ==
    \E i \in Served("generate_melody") :
        /\ Succeeded(i)
        /\ log[i].req.avoid_leaps_greater_than = "M2"
        /\ log[i].req.end_note # Nil
        /\ \E a, b \in 1..Len(AttemptScores(i)) :
               /\ a < b
               /\ AttemptScores(i)[a] = 1
               /\ ~WithinBound(AttemptPitches(i)[a], "M2")
               /\ WithinBound(SubSeq(AttemptPitches(i)[a], 1, Len(AttemptPitches(i)[a]) - 1),
                              "M2")
               /\ AttemptScores(i)[b] = 2

\* The score that ends the attempt loop.
IsPerfect(req, score) ==
    IF req.avoid_leaps_greater_than # None THEN score = 2 ELSE score = 1

\* C20: the returned melody is that of the earliest attempt with the
\* highest score of all attempts made, no attempt but the last made has a
\* perfect score, and when attempts of the budget are left unused the last
\* one made has a perfect score.
C20_EarliestBestAndStopAtPerfect ==
    \A i \in Served("generate_melody") :
        Succeeded(i) =>
            LET scores == AttemptScores(i)
                n == Len(scores)
                best == CHOOSE a \in 1..n :
                            /\ \A b \in 1..n : scores[b] <= scores[a]
                            /\ \A b \in 1..(a - 1) : scores[b] < scores[a]
            IN  /\ NotePitches(i) = AttemptPitches(i)[best]
                /\ \A a \in 1..(n - 1) : ~IsPerfect(log[i].req, scores[a])
                /\ n < log[i].req.max_attempts => IsPerfect(log[i].req, scores[n])

\* Three attempts scored alike with different melodies, and the first was
\* returned.
C20_Witness ==
    \E i \in Served("generate_melody") :
        /\ Succeeded(i)
        /\ Len(AttemptScores(i)) = 3
        /\ AttemptScores(i)[1] = AttemptScores(i)[2]
        /\ AttemptScores(i)[2] = AttemptScores(i)[3]
        /\ AttemptPitches(i)[1] # AttemptPitches(i)[2]
        /\ AttemptPitches(i)[1] # AttemptPitches(i)[3]
        /\ NotePitches(i) = AttemptPitches(i)[1]

\* The loop was left after the second of three attempts allowed, the
\* first one with a perfect score.
C20_StoppedEarly ==
    \E i \in Served("generate_melody") :
        /\ Succeeded(i)
        /\ log[i].req.max_attempts = 3
        /\ Len(AttemptScores(i)) = 2

\* The positions of the warnings of log entry i that have the given code.
WarningsOf(i, code) ==
    {j \in 1..Len(log[i].out.warnings) : log[i].out.warnings[j].code = code}

\* The request of log entry i names an end note that is no scale pitch of
\* its range.
EndOffScale(i) ==
    /\ log[i].req.end_note # Nil
    /\ ~InScaleByMidi(ScaleOf(log[i].req), log[i].req.end_note[1])

\* At most one warning of each kind, each present exactly when the
\* requested boundary pitch is off the scale, and the end note warning
\* names the last note returned.
WarnedOncePerBoundary(i) ==
    /\ Cardinality(WarningsOf(i, "START_NOTE_ADJUSTED")) <= 1
    /\ Cardinality(WarningsOf(i, "END_NOTE_ADJUSTED")) <= 1
    /\ (WarningsOf(i, "START_NOTE_ADJUSTED") # {}) <=> StartOffScale(i)
    /\ (WarningsOf(i, "END_NOTE_ADJUSTED") # {}) <=> EndOffScale(i)
    /\ \A j \in WarningsOf(i, "END_NOTE_ADJUSTED") :
           log[i].out.warnings[j].pitch = NotePitches(i)[Len(NotePitches(i))]

\* C21 as stated: a successful response has at most one warning of each
\* kind, each present exactly when the requested boundary pitch is off the
\* scale, and each names the pitch the returned melody has at that end.
C21_WarningsNameUsedPitches ==
    \A i \in Served("generate_melody") :
        Succeeded(i) =>
            /\ WarnedOncePerBoundary(i)
            /\ \A j \in WarningsOf(i, "START_NOTE_ADJUSTED") :
                   log[i].out.warnings[j].pitch = NotePitches(i)[1]

\* C21: a successful response has at most one warning of each kind, each
\* present exactly when the requested boundary pitch is off the scale; the
\* end note warning names the last note returned, and the start note
\* warning names the first note returned unless the melody has a single
\* note and an end note is requested.
C21_WarningsOncePerBoundary ==
    \A i \in Served("generate_melody") :
        Succeeded(i) =>
            /\ WarnedOncePerBoundary(i)
            /\ (Len(NotePitches(i)) > 1 \/ log[i].req.end_note = Nil) =>
                   \A j \in WarningsOf(i, "START_NOTE_ADJUSTED") :
                       log[i].out.warnings[j].pitch = NotePitches(i)[1]

\* Three attempts ran with both boundary pitches off the scale, and the
\* response has one warning of each kind, naming the first and the last
\* note of the melody.
C21_Witness ==
    \E i \in Served("generate_melody") :
        /\ Succeeded(i)
        /\ Len(AttemptScores(i)) = 3
        /\ StartOffScale(i) /\ EndOffScale(i)
        /\ Len(NotePitches(i)) > 1
        /\ \E j \in WarningsOf(i, "START_NOTE_ADJUSTED") :
               log[i].out.warnings[j].pitch = NotePitches(i)[1]
        /\ \E j \in WarningsOf(i, "END_NOTE_ADJUSTED") :
               log[i].out.warnings[j].pitch = NotePitches(i)[Len(NotePitches(i))]

\* The harmonic-rhythm points of the melody of request i.
ChordPointsOf(i) ==
    get_chord_points(log[i].req.melody, log[i].req.chord_rhythm, log[i].req.melody.ts_num)

C29_AllowedWhenSomeResolve ==
    \A i \in Served("reharmonize") :
        /\ Succeeded(i)
        /\ ~(SeqToSet(STYLE_RULES(log[i].req.style).allowed_numerals)
                \subseteq log[i].req.melody.unresolved)
        => \A h \in 1..Len(Harmonizations(i)) :
                /\ SeqToSet(Harmonizations(i)[h].roman_numerals)
                       \subseteq SeqToSet(STYLE_RULES(log[i].req.style).allowed_numerals)
                /\ Len(Harmonizations(i)[h].roman_numerals) = Len(ChordPointsOf(i))

\* The notes of response i and the onset of its note j, in sixteenths of a
\* quarter from the start of the melody.
NotesOut(i) == log[i].out.data[1].notes

Onset(i, j) == SumSeq([n \in 1..(j - 1) |-> NotesOut(i)[n].duration])

\* The length of a measure as "Build note data" counts it: the numerator
\* of the time signature in quarters.
BarLength(i) == 4 * log[i].req.time_signature[1]

\* The rhythm generated for response i.
RhythmOf(i) ==
    generate_rhythm_pattern(log[i].req.rhythmic_density, log[i].req.time_signature,
                            log[i].req.length_measures,
                            RngSeeded(log[i].out.data[1].seed_used)).rhythm

\* note_count, the number of notes and the number of rhythm slots agree.
CountsAgree(i) ==
    /\ log[i].out.data[1].note_count = Len(NotesOut(i))
    /\ Len(NotesOut(i)) = Len(RhythmOf(i))

\* C30: in a generate_melody response note_count is the number of notes and
\* of rhythm slots, and every note is reported in a measure from 1 to
\* length_measures at a beat from 1 up to but not including
\* beats_per_measure + 1 (beats in sixteenths, beat 1.0 being 4), the
\* measure and beat its onset falls on.
C30_PositionsAreOnsets ==
    \A i \in Served("generate_melody") :
        Succeeded(i) =>
            /\ CountsAgree(i)
            /\ \A j \in 1..Len(NotesOut(i)) :
                  /\ NotesOut(i)[j].measure \in 1..log[i].req.length_measures
                  /\ 4 <= NotesOut(i)[j].beat
                  /\ NotesOut(i)[j].beat < BarLength(i) + 4
                  /\ NotesOut(i)[j].measure = (Onset(i, j) \div BarLength(i)) + 1
                  /\ NotesOut(i)[j].beat = (Onset(i, j) % BarLength(i)) + 4

\* The counts agree in every response, and the notes that start on a
\* whole beat are reported where they start.
C30_CountsAndWholeBeats ==
    \A i \in Served("generate_melody") :
        Succeeded(i) =>
            /\ CountsAgree(i)
            /\ \A j \in 1..Len(NotesOut(i)) :
                  (\A n \in 1..j : Onset(i, n) % 4 = 0) =>
                      /\ NotesOut(i)[j].measure = (Onset(i, j) \div BarLength(i)) + 1
                      /\ NotesOut(i)[j].beat = (Onset(i, j) % BarLength(i)) + 4

(***************************************************************************)
(* Properties of sessions and of concurrent requests.                      *)
(***************************************************************************)
Notes(i) == log[i].out.data[1].notes

\* C2: two generate_melody requests of one session with the same explicit
\* seed and otherwise identical parameters return the same notes (pitches,
\* durations, measures and beats), whatever was served in between.
C2_SameSeedSameNotes ==
    \A i, j \in Served("generate_melody") :
        (i < j /\ log[i].req = log[j].req /\ log[i].req.seed # Nil
           /\ Succeeded(i) /\ Succeeded(j))
        => Notes(i) = Notes(j)

\* The same seeded request served twice, with a reharmonize and an unseeded
\* generate_melody served in between.
C2_Witness ==
    \E i, j \in Served("generate_melody") :
        /\ j = i + 3 /\ log[i].req = log[j].req /\ log[i].req.seed # Nil
        /\ Succeeded(i) /\ Succeeded(j)
        /\ log[i + 1].op = "reharmonize"
        /\ log[i + 2].op = "generate_melody" /\ log[i + 2].req.seed = Nil

\* C3: a request that ran interleaved with another one returns what it
\* returns when run alone (a reharmonize, and a generate_melody with an
\* explicit seed, return the same from any state of the generator).
C3_InterleavedAsAlone ==
    \A w \in DOMAIN workers :
        workers[w].pc = "done" =>
            IF workers[w].op = "reharmonize"
            THEN workers[w].out[1] = reharmonize(workers[w].req, rngGlobal, hashSalt).out
            ELSE workers[w].req.seed # Nil =>
                    workers[w].out[1] = generate_melody(workers[w].req, rngGlobal).out

\* C4: no two generate_melody requests of a session that gave no seed were
\* served with the same freshly drawn seed.
C4_FreshSeedNeverReused ==
    \A i, j \in Served("generate_melody") :
        (i < j /\ log[i].req.seed = Nil /\ log[j].req.seed = Nil
           /\ Succeeded(i) /\ Succeeded(j))
        => log[i].out.data[1].seed_used # log[j].out.data[1].seed_used

\* C5: seed_used is the request's seed when it gives one (seed 0 too) and
\* a number otherwise, and the same request re-issued with seed = seed_used
\* returns the same notes.
C5_SeedEchoedAndReplayable ==
    \A i \in Served("generate_melody") :
        Succeeded(i) =>
            /\ log[i].req.seed # Nil => log[i].out.data[1].seed_used = log[i].req.seed[1]
            /\ log[i].out.data[1].seed_used \in Nat
            /\ \A j \in Served("generate_melody") :
                  (i < j /\ Succeeded(j)
                     /\ log[j].req = [log[i].req EXCEPT
                                         !.seed = Some(log[i].out.data[1].seed_used)])
                  => Notes(j) = Notes(i)

\* A request with seed 0 was served after the generator had been used, and
\* an unseeded request was re-issued with the seed echoed back.
C5_Witness ==
    /\ \E k \in Served("generate_melody") :
          k > 1 /\ log[k - 1].op = "reharmonize" /\ Succeeded(k - 1)
          /\ log[k].req.seed = Some(0) /\ Succeeded(k)
    /\ \E i, j \in Served("generate_melody") :
          /\ i < j /\ log[i].req.seed = Nil /\ Succeeded(i) /\ Succeeded(j)
          /\ log[i].out.data[1].seed_used # 0
          /\ log[j].req = [log[i].req EXCEPT !.seed = Some(log[i].out.data[1].seed_used)]

(***************************************************************************)
(* Properties of the helper functions.                                     *)
(***************************************************************************)
\* The calls of op that have returned a value.
Returned(op) == {i \in 1..Len(log) : log[i].op = op /\ log[i].out.kind = "returned"}

\* beats_per_measure * (4 / beat_unit) * measures, in sixteenths of a
\* quarter.
RhythmTarget(call) ==
    (16 * call.time_sig[1] * call.num_measures) \div call.time_sig[2]

\* C15: generate_rhythm_pattern returns positive durations whose sum is
\* beats_per_measure * (4 / beat_unit) * measures; the sequence is empty
\* when that target is 0 and non-empty when it is positive.
C15_RhythmFillsTarget ==
    \A i \in 1..Len(log) :
        log[i].op = "generate_rhythm_pattern" /\ log[i].out.kind # "pending" =>
            LET rhythm == log[i].out.value IN
            /\ log[i].out.kind = "returned"
            /\ \A j \in 1..Len(rhythm) : rhythm[j] > 0
            /\ SumSeq(rhythm) = RhythmTarget(log[i].req)
            /\ (rhythm = <<>>) <=> (RhythmTarget(log[i].req) = 0)

\* Two measures of 7/8 have been filled with several durations that sum to
\* seven quarters.
C15_Witness ==
    \E i \in Returned("generate_rhythm_pattern") :
        /\ log[i].req.time_sig = <<7, 8>> /\ log[i].req.num_measures = 2
        /\ Len(log[i].out.value) > 2
        /\ SumSeq(log[i].out.value) = 28

\* The values occurring in the patterns of a density tier.
Palette(density) ==
    CASE density = "sparse" -> {4, 8, 12, 16}
      [] density = "medium" -> {2, 4, 6, 8}
      [] density = "dense" -> {1, 2, 4}

\* C16 as stated: every duration of a generated rhythm is a value of the
\* palette of the requested density.
C16_AllInPalette ==
    \A i \in Returned("generate_rhythm_pattern") :
        \A j \in 1..Len(log[i].out.value) :
            log[i].out.value[j] \in Palette(log[i].req.density)

\* C16: every duration of a generated rhythm but the last is a value of the
\* palette of the requested density, and the last is one too or is a
\* remainder shorter than the longest value of the palette.
C16_PaletteThenRemainder ==
    \A i \in Returned("generate_rhythm_pattern") :
        LET rhythm == log[i].out.value
            palette == Palette(log[i].req.density)
        IN  /\ \A j \in 1..(Len(rhythm) - 1) : rhythm[j] \in palette
            /\ rhythm # <<>> =>
                   \/ rhythm[Len(rhythm)] \in palette
                   \/ \E d \in palette : rhythm[Len(rhythm)] < d

\* A sparse rhythm of several durations ends on a remainder that is no value
\* of the sparse palette.
C16_Witness ==
    \E i \in Returned("generate_rhythm_pattern") :
        /\ log[i].req.density = "sparse"
        /\ Len(log[i].out.value) > 1
        /\ log[i].out.value[Len(log[i].out.value)] \notin Palette("sparse")

\* The midi values of the pitches of key k within [low, high].
ScaleMidis(k, low, high) ==
    {m \in Midi(low)..Midi(high) :
        \E d \in 1..7 :
            (m - (LetterPc(k.tonic[1]) + k.tonic[2] + ModeSteps(k.mode)[d])) % 12 = 0}

\* C17: for a range with low below high, get_scale_pitches_in_range returns
\* pitches of strictly ascending midi value, and their midi values are
\* exactly those of the key's scale within [low, high].
C17_ScaleRealizationExact ==
    \A i \in Returned("get_scale_pitches_in_range") :
        LET pitches == log[i].out.value IN
        /\ \A j \in 2..Len(pitches) : Midi(pitches[j - 1]) < Midi(pitches[j])
        /\ {Midi(pitches[j]) : j \in 1..Len(pitches)}
              = ScaleMidis(log[i].req.key, log[i].req.range_low, log[i].req.range_high)

\* The step between chord points, in sixteenths of a quarter.
PointStep(call) ==
    CASE call.chord_rhythm = "per_measure" -> 4 * call.time_sig_numerator
      [] call.chord_rhythm = "per_half" -> 2 * call.time_sig_numerator
      [] call.chord_rhythm = "per_beat" -> 4

\* C18: get_chord_points returns 0, step, 2 * step, ... as far as the
\* offsets are below the total duration of the melody and no further, with
\* step the beats of a measure, half of them, or one beat.
C18_ChordPointsAreMultiples ==
    \A i \in Returned("get_chord_points") :
        LET points == log[i].out.value
            step == PointStep(log[i].req)
            total == TotalLength(log[i].req.melody.notes)
        IN  /\ \A j \in 1..Len(points) : points[j] = (j - 1) * step /\ points[j] < total
            /\ Len(points) * step >= total
            /\ total > 0 => points # <<>> /\ points[1] = 0

\* Eight quarters in 4/4 per half measure have given the offsets 0, 2, 4
\* and 6 quarters.
C18_Witness ==
    \E i \in Returned("get_chord_points") :
        /\ log[i].req.melody = EightQuarters /\ log[i].req.time_sig_numerator = 4
        /\ log[i].req.chord_rhythm = "per_half"
        /\ log[i].out.value = <<0, 8, 16, 24>>

\* The score of the candidate with the given label in a candidate list.
ScoreOf(cands, numeral) ==
    cands[CHOOSE j \in 1..Len(cands) : cands[j].numeral = numeral].score

\* The candidates of a call made again on the same generator state with
\* another previous label and cadence flag.
CandidatesWith(call, prev, cad) ==
    get_chord_candidates(call.melody_notes, call.melody, STYLE_RULES(call.style), prev, cad,
                         RngSeeded(call.seed)).candidates

\* The label `numeral` follows the label prev in some idiomatic progression
\* of the style.
PairInSomeProgression(style, prev, numeral) ==
    \E j \in 1..Len(STYLE_RULES(style).common_progressions) :
        LET prog == STYLE_RULES(style).common_progressions[j] IN
        \E n \in 1..(Len(prog) - 1) : prog[n] = prev /\ prog[n + 1] = numeral

\* C22: what a previous label adds to the score of a candidate (its score
\* less its score without a previous label, in units of 1/4200) is 0.3 if
\* the pair is adjacent in some idiomatic progression of the style and 0
\* otherwise.
C22_ProgressionBonusOnce ==
    \A i \in Returned("get_chord_candidates") :
        \A j \in 1..Len(log[i].out.value) :
            LET c == log[i].out.value[j]
                plain == CandidatesWith(log[i].req, None, log[i].req.is_cadence)
            IN  c.score - ScoreOf(plain, c.numeral)
                    = IF /\ log[i].req.previous_chord # None
                         /\ PairInSomeProgression(log[i].req.style,
                                                  log[i].req.previous_chord, c.numeral)
                      THEN 1260 ELSE 0

\* The label occurs in some cadence pattern of the style.
InSomeCadence(style, numeral) ==
    \E j \in 1..Len(STYLE_RULES(style).cadence_patterns) :
        \E n \in 1..Len(STYLE_RULES(style).cadence_patterns[j]) :
            STYLE_RULES(style).cadence_patterns[j][n] = numeral

\* C23: what the cadence flag adds to the score of a candidate (its score
\* less its score in a slot that is no cadence slot, in units of 1/4200) is
\* 0.2 if the slot is a cadence slot and the label occurs in some cadence
\* pattern of the style, and 0 otherwise.
C23_CadenceBonusOnce ==
    \A i \in Returned("get_chord_candidates") :
        \A j \in 1..Len(log[i].out.value) :
            LET c == log[i].out.value[j]
                plain == CandidatesWith(log[i].req, log[i].req.previous_chord, FALSE)
            IN  c.score - ScoreOf(plain, c.numeral)
                    = IF log[i].req.is_cadence /\ InSomeCadence(log[i].req.style, c.numeral)
                      THEN 840 ELSE 0

\* Some idiomatic progression of the style is a contiguous run of whole
\* labels of the label sequence.
HoldsIdiomaticRun(progression, style) ==
    \E j \in 1..Len(STYLE_RULES(style).common_progressions) :
        LET common == STYLE_RULES(style).common_progressions[j] IN
        \E k \in 0..(Len(progression) - Len(common)) :
            \A n \in 1..Len(common) : progression[k + n] = common[n]

\* The final two labels are the last two labels of some cadence pattern.
EndsLikeCadence(progression, style) ==
    /\ Len(progression) >= 2
    /\ \E j \in 1..Len(STYLE_RULES(style).cadence_patterns) :
           LET pattern == STYLE_RULES(style).cadence_patterns[j] IN
           /\ Len(pattern) >= 2
           /\ progression[Len(progression) - 1] = pattern[Len(pattern) - 1]
           /\ progression[Len(progression)] = pattern[Len(pattern)]

\* C24: score_style_adherence (in hundredths) is 50, plus 20 exactly when
\* an idiomatic progression occurs as a run of whole labels, plus 15
\* exactly when the final two labels end some cadence pattern.
C24_StyleScoreFromTwoBonuses ==
    \A i \in Returned("score_style_adherence") :
        log[i].out.value
            = 50 + (IF HoldsIdiomaticRun(log[i].req.progression, log[i].req.style)
                    THEN 20 ELSE 0)
                 + (IF EndsLikeCadence(log[i].req.progression, log[i].req.style)
                    THEN 15 ELSE 0)

\* The bonus select_chord gives the bass of `numeral` after the bass of
\* the previous chord, in units of 1/4200.
BassMotionBonus(call, numeral) ==
    IF call.bass_motion_pref = "any" \/ call.previous_chord = None THEN 0
    ELSE LET interval == Abs(BassPc(numeral, call.melody.key)
                             - BassPc(call.previous_chord, call.melody.key))
         IN  CASE call.bass_motion_pref = "stepwise" /\ interval <= 2 -> 840
               [] call.bass_motion_pref = "fifths" /\ interval \in {5, 7} -> 840
               [] call.bass_motion_pref = "pedal" /\ interval = 0 -> 1260
               [] OTHER -> 0

\* The score of the j-th candidate of a call with its bass-motion bonus.
Reranked(call, j) ==
    call.candidates[j].score + BassMotionBonus(call, call.candidates[j].numeral)

\* C25: select_chord on a non-empty candidate list returns the label of a
\* candidate that fewer than three candidates outscore once the bass-motion
\* bonus is added.
C25_SelectedAmongTopThree ==
    \A i \in Returned("select_chord") :
        \E j \in 1..Len(log[i].req.candidates) :
            /\ log[i].req.candidates[j].numeral = log[i].out.value
            /\ Cardinality({n \in 1..Len(log[i].req.candidates) :
                               Reranked(log[i].req, n) > Reranked(log[i].req, j)}) < 3

\* Of four candidates, the third after re-ranking has a negative score and
\* was selected.
C25_Witness ==
    \E i \in Returned("select_chord") :
        /\ Len(log[i].req.candidates) = 4
        /\ \E j \in 1..4 :
               /\ log[i].req.candidates[j].numeral = log[i].out.value
               /\ Reranked(log[i].req, j) < 0
               /\ Cardinality({n \in 1..4 :
                                  Reranked(log[i].req, n) > Reranked(log[i].req, j)}) = 2

\* The scale pitches of a select_next_pitch call that the max-leap bound
\* allows after the current pitch.
Reachable(call) ==
    {call.scale_pitches[j] : j \in {n \in 1..Len(call.scale_pitches) :
        \/ call.max_leap = None
        \/ /\ Midi(call.scale_pitches[n]) - Midi(call.current)
                  <= IntervalSemitones(call.max_leap)
           /\ Midi(call.current) - Midi(call.scale_pitches[n])
                  <= IntervalSemitones(call.max_leap)}}

\* C26: select_next_pitch returns a scale pitch within the max-leap bound of
\* the current pitch, or the current pitch itself when the bound allows no
\* scale pitch; a current pitch on the scale is itself allowed by every
\* bound of 0 semitones or more.
C26_NextPitchWithinBoundOrCurrent ==
    \A i \in 1..Len(log) :
        log[i].op = "select_next_pitch" /\ log[i].out.kind # "pending" =>
            /\ log[i].out.kind = "returned"
            /\ IF Reachable(log[i].req) # {}
               THEN log[i].out.value \in Reachable(log[i].req)
               ELSE log[i].out.value = log[i].req.current
            /\ InScaleByMidi(log[i].req.scale_pitches, log[i].req.current) =>
                   \E p \in Reachable(log[i].req) : Midi(p) = Midi(log[i].req.current)

\* From E4 under the bound M2 a neighbour of E4 was returned.
C26_Witness ==
    \E i \in Returned("select_next_pitch") :
        /\ log[i].req.current = pE4 /\ log[i].req.max_leap = "M2"
        /\ Midi(log[i].out.value) # Midi(pE4)

\* From C6, which no pitch of C4..C5 is within a second of, C6 itself was
\* returned.
C26_FellBack ==
    \E i \in Returned("select_next_pitch") :
        /\ log[i].req.current = pC6 /\ log[i].req.max_leap = "M2"
        /\ log[i].out.value = pC6

\* The sets of names C, B#, E, E#, F, G that spell the pitch classes of
\* melody_notes, one name for each.
Respellings(melody_notes) ==
    {names \in SUBSET {<<0, 0>>, <<6, 1>>, <<2, 0>>, <<2, 1>>, <<3, 0>>, <<4, 0>>} :
        /\ {NamePc(nm) : nm \in names} = {NamePc(nm) : nm \in melody_notes}
        /\ Cardinality(names) = Cardinality(melody_notes)}

\* The candidates of a call made again on the same generator state with
\* other melody names.
CandidatesOn(call, melody_notes) ==
    get_chord_candidates(melody_notes, call.melody, STYLE_RULES(call.style),
                         call.previous_chord, call.is_cadence,
                         RngSeeded(call.seed)).candidates

\* C27: the candidates and their scores depend on the melody names only
\* through their pitch classes: every respelling of the melody names of a
\* call gives the candidates and scores the call returned.
C27_ChordToneByPitchClass ==
    \A i \in Returned("get_chord_candidates") :
        \A names \in Respellings(log[i].req.melody_notes) :
            CandidatesOn(log[i].req, names) = log[i].out.value

\* C28: the first note of the voicing realize_chord returns for a request
\* with a bass_note has the name of the bass note.
C28_BassNoteIsLowest ==
    \A i \in Returned("realize_chord") :
        log[i].req.bass_note # Nil =>
            /\ log[i].out.value # <<>>
            /\ PitchName(log[i].out.value[1]) = PitchName(log[i].req.bass_note[1])

\* The same for the requests in root position, close voicing and the range
\* of the instrument.
C28_BassInPlainRequests ==
    \A i \in Returned("realize_chord") :
        /\ log[i].req.bass_note # Nil
        /\ log[i].req.voicing_style = "close" /\ log[i].req.inversion = 0
        /\ log[i].req.range_low = Nil
        => /\ log[i].out.value # <<>>
           /\ PitchName(log[i].out.value[1]) = PitchName(log[i].req.bass_note[1])

====
